---- MODULE Spec2Model ----
(***************************************************************************)
(* Model of the margin-pool parameter reader of scallop-deepbook-kit:      *)
(* DeepBookMarginPool.getPoolParameters (batch construction, simulation,   *)
(* positional decoding, unit formatting) and the interest-rate curve       *)
(* engine (#computeBorrowAprAtUtil, #calculateKinksAndRate), together with *)
(* the fixed-point helpers mul and normalize; two getPoolParameters        *)
(* requests interleaved on one instance; and the guarded operations of     *)
(* DeepBookMarginToolkit (supplyToMarginPool, withdrawFromMarginPool,      *)
(* getBalance).                                                            *)
(*                                                                         *)
(* Modelled files: src/src/toolkit/DeepBookMarginPool.ts, with the key     *)
(* registry of src/src/testnet-config.ts and the helpers at the end of     *)
(* src/src/toolkit/types.ts, and src/src/toolkit/DeepBookMarginToolkit.ts. *)
(*                                                                         *)
(* Numbers.  bigint values are TLA+ integers.  TLC's integers are 32 bits  *)
(* wide, so every on-chain value of the model is below 2^31 and the        *)
(* double-width product inside mul is computed limb by limb (exactly, as   *)
(* bigint does).  JavaScript numbers are modelled as reduced fractions     *)
(* [num, den]; the one place where binary floating point changes the       *)
(* outcome (interestRate * FLOAT_SCALAR fed to BigInt) is modelled by      *)
(* timesFloatScalar.                                                       *)
(***************************************************************************)
EXTENDS Integers, Sequences, FiniteSets, TLC

\* 1.0 in the fixed-point domain (FLOAT_SCALAR of @mysten/deepbook-v3).
FLOAT_SCALAR == 1000000000

\* The largest number of unrelated calls a caller has put in the batch before
\* handing it to getPoolParameters.
MaxPre == 1

\* The largest number of operations called on one toolkit instance.
MaxToolkitCalls == 2

\* The calls of the env utilities in one run.
MaxEnvCalls == 2

(***************************************************************************)
(* Parameter key registry                                                  *)
(***************************************************************************)
MARGIN_POOL_PARAM_KEYS ==
  << "supplyCap", "maxUtilizationRate", "protocolSpread", "minBorrow",
     "interestRate", "totalSupply", "supplyShares", "totalBorrow",
     "borrowShares", "lastUpdateTimestamp" >>

MARGIN_POOL_W_SUPPLIER_CAP_PARAM_KEYS ==
  << "userSupplyShares", "userSupplyAmount" >>

Range(s) == { s[i] : i \in DOMAIN s }

\* isWithSupplierCapKey: membership in _WITH_CAP_KEYS.
isWithSupplierCapKey(key) == key \in Range(MARGIN_POOL_W_SUPPLIER_CAP_PARAM_KEYS)

\* JavaScript's undefined, for an optional string argument that was not given.
Undefined == "<undefined>"

\* Truthiness of an optional string: undefined and "" are falsy.
Truthy(s) == s # Undefined /\ s # ""

(***************************************************************************)
(* Fixed-point helpers                                                     *)
(***************************************************************************)
Abs(x) == IF x < 0 THEN -x ELSE x

\* floor(a * b / 10^9) for a, b >= 0 by schoolbook multiplication in base
\* 1000 (10^9 = 1000^3): c[k] are the column sums of the limb products, the
\* three low columns only contribute their carry.
MulDivScalar(a, b) ==
  LET a0 == a % 1000
      a1 == (a \div 1000) % 1000
      a2 == (a \div 1000000) % 1000
      a3 == a \div 1000000000
      b0 == b % 1000
      b1 == (b \div 1000) % 1000
      b2 == (b \div 1000000) % 1000
      b3 == b \div 1000000000
      c0 == a0 * b0
      c1 == a0 * b1 + a1 * b0
      c2 == a0 * b2 + a1 * b1 + a2 * b0
      c3 == a0 * b3 + a1 * b2 + a2 * b1 + a3 * b0
      c4 == a1 * b3 + a2 * b2 + a3 * b1
      c5 == a2 * b3 + a3 * b2
      c6 == a3 * b3
      k1 == c0 \div 1000
      k2 == (c1 + k1) \div 1000
      k3 == (c2 + k2) \div 1000
  IN  c3 + k3 + c4 * 1000 + c5 * 1000000 + c6 * FLOAT_SCALAR

\* mul = (a * b) / BigInt(FLOAT_SCALAR); bigint division truncates towards
\* zero.
mul(a, b) ==
  LET m == MulDivScalar(Abs(a), Abs(b))
  IN  IF (a < 0) = (b < 0) THEN m ELSE -m

RECURSIVE GCD(_, _)
GCD(a, b) == IF b = 0 THEN a ELSE GCD(b, a % b)

\* A JavaScript number with value n / d (d > 0), as a reduced fraction.
Num(n, d) ==
  LET g == GCD(Abs(n), d)
  IN  [num |-> n \div g, den |-> d \div g]

\* Faulty variant of normalize: the value as a percentage (12 for 12%)
\* instead of a fraction.
normalizeAsPercent(value) == Num(value, FLOAT_SCALAR \div 100)

\* normalize = Number(value) / FLOAT_SCALAR.
normalize(value) == Num(value, FLOAT_SCALAR)

(***************************************************************************)
(* mul on operands of any width                                            *)
(***************************************************************************)
\* A bigint too wide for a TLC integer is the sequence of its base-1000
\* digits, least significant first, without leading zeros (0 is << >>).

\* s without its leading (most significant) zero digits.
RECURSIVE StripZeros(_)
StripZeros(s) ==
  IF s = << >> THEN s
  ELSE IF s[Len(s)] = 0 THEN StripZeros(SubSeq(s, 1, Len(s) - 1))
  ELSE s

\* Column k of the schoolbook product: the sum of a[i] * b[j] over i + j = k + 1.
RECURSIVE ColumnSum(_, _, _, _)
ColumnSum(a, b, k, i) ==
  IF i > Len(a) THEN 0
  ELSE (IF k - i + 1 \in DOMAIN b THEN a[i] * b[k - i + 1] ELSE 0)
         + ColumnSum(a, b, k, i + 1)

\* The digits of a * b from column k on, with the carry of the columns below.
RECURSIVE ProductFrom(_, _, _, _)
ProductFrom(a, b, k, carry) ==
  IF k > Len(a) + Len(b)
    THEN << >>
    ELSE LET t == ColumnSum(a, b, k, 1) + carry
         IN  << t % 1000 >> \o ProductFrom(a, b, k + 1, t \div 1000)

\* a * b on bigints: exact, as wide as the product needs.
BigProduct(a, b) == StripZeros(ProductFrom(a, b, 1, 0))

\* p / BigInt(FLOAT_SCALAR) on a non-negative bigint: 10^9 = 1000^3, so the
\* truncating division drops the three lowest digits.
BigDivScalar(p) == IF Len(p) <= 3 THEN << >> ELSE SubSeq(p, 4, Len(p))

\* Faulty variant of mul: the product is kept in the width of the operands
\* (seven digits here) and its higher digits are lost.
mulLimbsWrapping(a, b) ==
  LET p == BigProduct(a, b)
      w == StripZeros(IF Len(p) > 7 THEN SubSeq(p, 1, 7) ELSE p)
  IN  BigDivScalar(w)

\* mul = (a * b) / BigInt(FLOAT_SCALAR), on bigints of any width.
mulLimbs(a, b) == BigDivScalar(BigProduct(a, b))

(***************************************************************************)
(* Static asset metadata (TESTNET_COINS / TESTNET_MARGIN_POOLS)            *)
(***************************************************************************)
\* The assets that have a margin pool; scalar is the token's smallest units
\* per whole unit.
CoinKeys == {"SUI", "DBUSDC"}

getCoin(coinKey) ==
  IF coinKey = "SUI"
    THEN [address |-> "0x2", type |-> "0x2::sui::SUI",
          scalar |-> 1000000000, decimals |-> 9]
    ELSE [address |-> "0xf715", type |-> "0xf715::DBUSDC::DBUSDC",
          scalar |-> 1000000, decimals |-> 6]

getMarginPool(coinKey) ==
  IF coinKey = "SUI"
    THEN [address |-> "0xe620", type |-> "0x2::sui::SUI"]
    ELSE [address |-> "0xfd0d", type |-> "0xf715::DBUSDC::DBUSDC"]

(***************************************************************************)
(* Call batcher                                                            *)
(***************************************************************************)
NoError == "<none>"

\* One command of a Transaction: the read call of a parameter key, or a call
\* the caller put there ("other").
ReadCall(paramKey, coinKey, supplierCap) ==
  [fn |-> paramKey, coin |-> coinKey, cap |-> supplierCap]

OtherCall == [fn |-> "other", coin |-> "-", cap |-> "-"]

\* Faulty variant of #addParamCall: a cap key without a cap is skipped
\* silently instead of throwing.
addParamCallSkipsMissingCap(tx, paramKey, coinKey, supplierCap) ==
  IF isWithSupplierCapKey(paramKey)
    THEN IF supplierCap = Undefined
           THEN [tx |-> tx, error |-> NoError]
           ELSE [tx |-> Append(tx, ReadCall(paramKey, coinKey, supplierCap)),
                 error |-> NoError]
    ELSE [tx |-> Append(tx, ReadCall(paramKey, coinKey, Undefined)),
          error |-> NoError]

\* #addParamCall: appends the call of paramKey to tx, or throws.  The result
\* is the transaction after the call and the error thrown (NoError if none).
addParamCall(tx, paramKey, coinKey, supplierCap) ==
  IF isWithSupplierCapKey(paramKey)
    THEN IF supplierCap = Undefined
           THEN [tx |-> tx, error |-> "supplierCap is required for '" \o paramKey \o "'."]
           ELSE [tx |-> Append(tx, ReadCall(paramKey, coinKey, supplierCap)),
                 error |-> NoError]
    ELSE [tx |-> Append(tx, ReadCall(paramKey, coinKey, Undefined)),
          error |-> NoError]

\* keys.forEach((paramKey) => this.#addParamCall(tx, paramKey, coinKey, cap)),
\* from position i on; the first throw ends the loop.
RECURSIVE AddParamCalls(_, _, _, _, _)
AddParamCalls(tx, keys, i, coinKey, supplierCap) ==
  IF i > Len(keys)
    THEN [tx |-> tx, error |-> NoError]
    ELSE LET r == addParamCall(tx, keys[i], coinKey, supplierCap)
         IN  IF r.error # NoError
               THEN r
               ELSE AddParamCalls(r.tx, keys, i + 1, coinKey, supplierCap)

\* Faulty variant of the batch construction: the cap keys are added before
\* the base keys.
BuildBatchCapKeysFirst(tx, coinKey, supplierCapId) ==
  LET caps == IF Truthy(supplierCapId)
                THEN AddParamCalls(tx, MARGIN_POOL_W_SUPPLIER_CAP_PARAM_KEYS, 1,
                                   coinKey, supplierCapId)
                ELSE [tx |-> tx, error |-> NoError]
  IN  AddParamCalls(caps.tx, MARGIN_POOL_PARAM_KEYS, 1, coinKey, Undefined)

\* The batch-building part of getPoolParameters (lines 389-397): the base
\* keys without a cap, then, if supplierCapId is truthy, the cap keys.
BuildBatch(tx, coinKey, supplierCapId) ==
  LET base == AddParamCalls(tx, MARGIN_POOL_PARAM_KEYS, 1, coinKey, Undefined)
  IN  IF base.error # NoError
        THEN base
        ELSE IF Truthy(supplierCapId)
               THEN AddParamCalls(base.tx, MARGIN_POOL_W_SUPPLIER_CAP_PARAM_KEYS,
                                  1, coinKey, supplierCapId)
               ELSE base

\* allKeys of getPoolParameters: the key list handed to the decoder.
AllKeys == MARGIN_POOL_PARAM_KEYS \o MARGIN_POOL_W_SUPPLIER_CAP_PARAM_KEYS

(***************************************************************************)
(* Result decoder                                                          *)
(***************************************************************************)
\* The BCS encoding of a u64: n bytes, least significant first.
RECURSIVE LittleEndian(_, _)
LittleEndian(v, n) ==
  IF n = 0 THEN << >> ELSE << v % 256 >> \o LittleEndian(v \div 256, n - 1)

EncodeU64(v) == LittleEndian(v, 8)

\* bcs.U64.parse: the integer of 8 little-endian bytes (as a decimal string
\* in the code; the model keeps the integer).
RECURSIVE FromLittleEndian(_, _)
FromLittleEndian(bytes, i) ==
  IF i > Len(bytes) THEN 0 ELSE bytes[i] + 256 * FromLittleEndian(bytes, i + 1)

bcsU64Parse(bytes) == FromLittleEndian(bytes, 1)

\* One entry of DevInspectResults.results: returnValues[0][0] or nothing.
Returned(v) == [present |-> TRUE, bytes |-> EncodeU64(v)]
NoReturn == [present |-> FALSE, bytes |-> << >>]

\* The position of key in keys (keys are distinct).
IndexOf(keys, key) == CHOOSE i \in DOMAIN keys : keys[i] = key

\* The keys whose position holds return bytes.
DecodableKeys(results, keys) ==
  { keys[i] : i \in { j \in DOMAIN keys : j <= Len(results) /\ results[j].present } }

\* Faulty variant of the decoder: keys[idx] reads the next position of the
\* results (an index off by one, wrapping around).
parseInspectResultShifted(inspectResults, keys) ==
  IF ~inspectResults.hasResults
    THEN [k \in {} |-> 0]
    ELSE LET results == inspectResults.results
             n == Len(keys)
             dom == { keys[i] : i \in { j \in DOMAIN keys :
                        (j % n) + 1 <= Len(results) /\ results[(j % n) + 1].present } }
         IN  [k \in dom |-> bcsU64Parse(results[(IndexOf(keys, k) % n) + 1].bytes)]

\* Faulty variant of the decoder: a position without bytes gives its key the
\* value 0 instead of leaving the key out.
parseInspectResultAbsentAsZero(inspectResults, keys) ==
  IF ~inspectResults.hasResults
    THEN [k \in {} |-> 0]
    ELSE LET results == inspectResults.results
             dom == { keys[i] : i \in { j \in DOMAIN keys : j <= Len(results) } }
         IN  [k \in dom |->
                IF results[IndexOf(keys, k)].present
                  THEN bcsU64Parse(results[IndexOf(keys, k)].bytes)
                  ELSE 0]

\* #parseInspectResultToBcsStructs: keys[idx] gets the value decoded from
\* results[idx]; a position without bytes leaves its key out; no results at
\* all give the empty map.
parseInspectResultToBcsStructs(inspectResults, keys) ==
  IF ~inspectResults.hasResults
    THEN [k \in {} |-> 0]
    ELSE LET results == inspectResults.results
         IN  [k \in DecodableKeys(results, keys) |->
                bcsU64Parse(results[IndexOf(keys, k)].bytes)]

(***************************************************************************)
(* Unit formatter                                                          *)
(***************************************************************************)
Zero == Num(0, 1)

InterestConfigKeys ==
  { "highKink", "baseBorrowApr", "borrowAprOnHighKink", "maxBorrowApr",
    "supplyApr", "utilizationRate" }

useFloatScalarKeys == { "interestRate", "maxUtilizationRate", "protocolSpread" }

\* Faulty variant of the classification: the rate-like keys are divided by
\* the coin's scalar like the amounts.
formatValueRatesByCoinScalar(key, value, coin) ==
  IF key = "lastUpdateTimestamp"
    THEN Num(value, 1)
    ELSE Num(value, coin.scalar)

\* The divisor chosen for one decoded value (lines 227-240).
formatValue(key, value, coin) ==
  IF key = "lastUpdateTimestamp"
    THEN Num(value, 1)
    ELSE IF key \in useFloatScalarKeys
           THEN Num(value, FLOAT_SCALAR)
           ELSE Num(value, coin.scalar)

\* Faulty variant of #formatResult: the zero defaults cover the base keys
\* only, so a credential key that was not decoded is absent from the bundle.
formatResultBaseDefaultsOnly(result, coinKey) ==
  LET coin == getCoin(coinKey)
      defaults == [k \in Range(MARGIN_POOL_PARAM_KEYS) \cup InterestConfigKeys |-> Zero]
      meta == [address |-> coin.address, type |-> coin.type,
               scalar |-> Num(coin.scalar, 1), decimals |-> Num(coin.decimals, 1)]
  IN  [k \in DOMAIN result |-> formatValue(k, result[k], coin)] @@ defaults @@ meta

\* #formatResult: zero defaults for every key, the coin's metadata, then the
\* formatted value of every decoded key.
formatResult(result, coinKey) ==
  LET coin == getCoin(coinKey)
      defaults == [k \in Range(AllKeys) \cup InterestConfigKeys |-> Zero]
      meta == [address |-> coin.address, type |-> coin.type,
               scalar |-> Num(coin.scalar, 1), decimals |-> Num(coin.decimals, 1)]
  IN  [k \in DOMAIN result |-> formatValue(k, result[k], coin)] @@ defaults @@ meta

\* The raw interest rates of the modelled chain states v for which the double
\* product (v / 1e9) * 1e9 is not an integer (IEEE-754 binary64):
\* 132349692 / 1e9 * 1e9 = 132349691.99999999.
InexactScaled == { 132349692 }

\* formattedResult.interestRate * FLOAT_SCALAR (line 419): a JavaScript
\* number, integral or not.  x is v / 10^9 for an integer v.  (The revision
\* of the class in src/unnamed/part_004, lines 402-405, passes
\* BigInt(parsed.interestRate ?? 0) instead.)
timesFloatScalar(x) ==
  LET v == x.num * (FLOAT_SCALAR \div x.den)
  IN  [integral |-> v \notin InexactScaled, value |-> v]

(***************************************************************************)
(* Interest-rate curve engine                                              *)
(***************************************************************************)
\* Faulty variant of the curve: above the kink the base segment
\* mul(optimal, base_slope) is left out.
computeBorrowAprNoBaseSegment(util, cfg) ==
  IF util < cfg.optimal_utilization
    THEN cfg.base_rate + mul(util, cfg.base_slope)
    ELSE cfg.base_rate + mul(util - cfg.optimal_utilization, cfg.excess_slope)

\* Faulty variant of the curve: the kink belongs to the lower branch and the
\* excess slope is applied to the whole utilization.
computeBorrowAprKinkInBaseBranch(util, cfg) ==
  IF util <= cfg.optimal_utilization
    THEN cfg.base_rate + mul(util, cfg.base_slope)
    ELSE cfg.base_rate + mul(cfg.optimal_utilization, cfg.base_slope)
           + mul(util, cfg.excess_slope)

\* Faulty variant of the curve: the excess slope is applied to util instead
\* of util - optimal.
computeBorrowAprExcessFromZero(util, cfg) ==
  IF util < cfg.optimal_utilization
    THEN cfg.base_rate + mul(util, cfg.base_slope)
    ELSE cfg.base_rate + mul(cfg.optimal_utilization, cfg.base_slope)
           + mul(util, cfg.excess_slope)

\* #computeBorrowAprAtUtil: the kinked borrow-rate curve at a 1e9-scaled
\* utilization.
computeBorrowAprAtUtil(util, cfg) ==
  LET baseRate == cfg.base_rate
      baseSlope == cfg.base_slope
      excessSlope == cfg.excess_slope
      optimalUtil == cfg.optimal_utilization
  IN  IF util < optimalUtil
        THEN baseRate + mul(util, baseSlope)
        ELSE baseRate + mul(optimalUtil, baseSlope)
               + mul(util - optimalUtil, excessSlope)

\* <<digit, remainder>> of (r * 10) divided by s, for 0 <= r < s, by ten
\* additions that never leave [0, s).
RECURSIVE TimesTenDivMod(_, _, _, _, _)
TimesTenDivMod(r, s, n, digit, acc) ==
  IF n = 0
    THEN << digit, acc >>
    ELSE IF acc >= s - r
           THEN TimesTenDivMod(r, s, n - 1, digit + 1, acc - (s - r))
           ELSE TimesTenDivMod(r, s, n - 1, digit, acc + r)

\* Long division: <<quotient, remainder>> after `digits` more decimal digits.
RECURSIVE LongDivision(_, _, _, _)
LongDivision(q, r, s, digits) ==
  IF digits = 0
    THEN << q, r >>
    ELSE LET d == TimesTenDivMod(r, s, 10, 0, 0)
         IN  LongDivision(q * 10 + d[1], d[2], s, digits - 1)

\* BigNumber(total_borrow).dividedBy(total_supply).shiftedBy(9)
\* .decimalPlaces(0) for total_supply > 0: the quotient to 9 decimal places,
\* rounded half up (BigNumber's default rounding mode).  dividedBy itself
\* rounds to 20 decimal places, which cannot change the result for operands
\* below 2^31.
shiftedQuotient(total_borrow, total_supply) ==
  LET d == LongDivision(total_borrow \div total_supply,
                        total_borrow % total_supply, total_supply, 9)
  IN  IF d[2] >= total_supply - d[2] THEN d[1] + 1 ELSE d[1]

Has(r, f) == f \in DOMAIN r

\* The first conversion of #calculateKinksAndRate that throws, in evaluation
\* order: BigInt(undefined) is a TypeError, BigInt("NaN") / BigInt("Infinity")
\* (a missing state field, or total_supply = 0) a SyntaxError, BigInt of a
\* non-integral number a RangeError.
calculateKinksAndRateError(interestConfig, marginPoolConfig, state, borrowApr) ==
  IF ~Has(interestConfig, "optimal_utilization") THEN "TypeError"
  ELSE IF ~Has(marginPoolConfig, "max_utilization_rate") THEN "TypeError"
  ELSE IF \E f \in {"base_rate", "base_slope", "excess_slope"} :
            ~Has(interestConfig, f) THEN "TypeError"
  ELSE IF ~Has(state, "total_borrow") \/ ~Has(state, "total_supply")
    THEN "SyntaxError"
  ELSE IF state.total_supply = 0 THEN "SyntaxError"
  ELSE IF ~borrowApr.integral THEN "RangeError"
  ELSE IF ~Has(marginPoolConfig, "protocol_spread") THEN "TypeError"
  ELSE NoError

\* Faulty variant: maxBorrowApr is taken at 100% utilization instead of at
\* max_utilization_rate.
calculateKinksAndRateRawMaxAtFull(interestConfig, marginPoolConfig, state, borrowApr) ==
  LET utilizationRate == shiftedQuotient(state.total_borrow, state.total_supply)
  IN  [baseBorrowApr |-> interestConfig.base_rate,
       highKink |-> interestConfig.optimal_utilization,
       borrowAprOnHighKink |->
         computeBorrowAprAtUtil(interestConfig.optimal_utilization, interestConfig),
       maxBorrowApr |-> computeBorrowAprAtUtil(FLOAT_SCALAR, interestConfig),
       supplyApr |-> mul(mul(borrowApr.value, utilizationRate),
                         FLOAT_SCALAR - marginPoolConfig.protocol_spread),
       utilizationRate |-> utilizationRate]

\* Faulty variant: supplyApr leaves out the factor (1 - protocol_spread).
calculateKinksAndRateRawNoSpread(interestConfig, marginPoolConfig, state, borrowApr) ==
  LET utilizationRate == shiftedQuotient(state.total_borrow, state.total_supply)
  IN  [baseBorrowApr |-> interestConfig.base_rate,
       highKink |-> interestConfig.optimal_utilization,
       borrowAprOnHighKink |->
         computeBorrowAprAtUtil(interestConfig.optimal_utilization, interestConfig),
       maxBorrowApr |->
         computeBorrowAprAtUtil(marginPoolConfig.max_utilization_rate, interestConfig),
       supplyApr |-> mul(borrowApr.value, utilizationRate),
       utilizationRate |-> utilizationRate]

\* Faulty variant: the protocol spread is subtracted from the supply rate
\* instead of scaling it.
calculateKinksAndRateRawSpreadSubtracted(interestConfig, marginPoolConfig, state, borrowApr) ==
  LET utilizationRate == shiftedQuotient(state.total_borrow, state.total_supply)
  IN  [baseBorrowApr |-> interestConfig.base_rate,
       highKink |-> interestConfig.optimal_utilization,
       borrowAprOnHighKink |->
         computeBorrowAprAtUtil(interestConfig.optimal_utilization, interestConfig),
       maxBorrowApr |->
         computeBorrowAprAtUtil(marginPoolConfig.max_utilization_rate, interestConfig),
       supplyApr |-> mul(borrowApr.value, utilizationRate)
                       - marginPoolConfig.protocol_spread,
       utilizationRate |-> utilizationRate]

\* The raw (1e9-scaled) values of #calculateKinksAndRate when nothing throws.
calculateKinksAndRateRaw(interestConfig, marginPoolConfig, state, borrowApr) ==
  LET highKink == interestConfig.optimal_utilization
      maxKink == marginPoolConfig.max_utilization_rate
      borrowAprOnHighKink == computeBorrowAprAtUtil(highKink, interestConfig)
      maxBorrowApr == computeBorrowAprAtUtil(maxKink, interestConfig)
      utilizationRate == shiftedQuotient(state.total_borrow, state.total_supply)
      supplyApr == mul(mul(borrowApr.value, utilizationRate),
                       FLOAT_SCALAR - marginPoolConfig.protocol_spread)
  IN  [baseBorrowApr |-> interestConfig.base_rate,
       highKink |-> highKink,
       borrowAprOnHighKink |-> borrowAprOnHighKink,
       maxBorrowApr |-> maxBorrowApr,
       supplyApr |-> supplyApr,
       utilizationRate |-> utilizationRate]

\* #calculateKinksAndRate: the error thrown, or the normalized values.
calculateKinksAndRate(interestConfig, marginPoolConfig, state, borrowApr) ==
  LET err == calculateKinksAndRateError(interestConfig, marginPoolConfig,
                                        state, borrowApr)
  IN  IF err # NoError
        THEN [error |-> err, normalized |-> << >>]
        ELSE LET raw == calculateKinksAndRateRaw(interestConfig, marginPoolConfig,
                                                 state, borrowApr)
             IN  [error |-> NoError,
                  normalized |-> [k \in InterestConfigKeys |-> normalize(raw[k])]]

\* Faulty variant of #getInterestConfig: a response that lacks a part of the
\* structure gives zero curve values instead of an error.
interestConfigZeroWhenMalformed(response, borrowApr) ==
  IF /\ Has(response, "data")
     /\ Has(response.data, "config")
     /\ Has(response.data.config, "interest_config")
     /\ Has(response.data.config, "margin_pool_config")
     /\ Has(response.data, "state")
    THEN calculateKinksAndRate(response.data.config.interest_config,
                               response.data.config.margin_pool_config,
                               response.data.state, borrowApr)
    ELSE [error |-> NoError, normalized |-> [k \in InterestConfigKeys |-> Zero]]

\* The part of #getInterestConfig after getObject has resolved (lines
\* 334-345).  The `.fields` wrappers of the response are flattened: response
\* is [data |-> [config |-> [interest_config, margin_pool_config], state]],
\* with any part possibly missing; reading a property of undefined is a
\* TypeError.
interestConfigOfResponse(response, borrowApr) ==
  IF ~Has(response, "data") THEN [error |-> "TypeError", normalized |-> << >>]
  ELSE IF ~Has(response.data, "config")
    THEN [error |-> "TypeError", normalized |-> << >>]
  ELSE IF ~Has(response.data.config, "interest_config")
    THEN [error |-> "TypeError", normalized |-> << >>]
  ELSE IF ~Has(response.data.config, "margin_pool_config")
    THEN [error |-> "TypeError", normalized |-> << >>]
  ELSE IF ~Has(response.data, "state")
    THEN [error |-> "TypeError", normalized |-> << >>]
  ELSE calculateKinksAndRate(response.data.config.interest_config,
                             response.data.config.margin_pool_config,
                             response.data.state, borrowApr)

(***************************************************************************)
(* The collaborators: what a simulation and an object fetch can answer     *)
(***************************************************************************)
\* Chain states: the value each read call returns ("other" for a call that
\* is not a parameter read).
ChainNames == { "A", "B", "C" }

ChainValue(chain, fn) ==
  CASE chain = "A" ->
         [supplyCap |-> 2000000000, maxUtilizationRate |-> 900000000,
          protocolSpread |-> 100000000, minBorrow |-> 10000000,
          interestRate |-> 132349692, totalSupply |-> 1000000000,
          supplyShares |-> 950000000, totalBorrow |-> 500000000,
          borrowShares |-> 480000000, lastUpdateTimestamp |-> 1700000000,
          userSupplyShares |-> 7, userSupplyAmount |-> 1500000000,
          other |-> 42][fn]
    [] chain = "B" ->
         [supplyCap |-> 1000000, maxUtilizationRate |-> 1000000000,
          protocolSpread |-> 0, minBorrow |-> 1,
          interestRate |-> 100000000, totalSupply |-> 3,
          supplyShares |-> 2, totalBorrow |-> 0,
          borrowShares |-> 0, lastUpdateTimestamp |-> 1700000001,
          userSupplyShares |-> 0, userSupplyAmount |-> 0,
          other |-> 42][fn]
    [] OTHER ->
         [supplyCap |-> 5000000, maxUtilizationRate |-> 800000000,
          protocolSpread |-> 250000000, minBorrow |-> 20000000,
          interestRate |-> 50000000, totalSupply |-> 600000000,
          supplyShares |-> 590000000, totalBorrow |-> 200000000,
          borrowShares |-> 190000000, lastUpdateTimestamp |-> 1700000002,
          userSupplyShares |-> 30000000, userSupplyAmount |-> 31000000,
          other |-> 42][fn]

\* devInspectTransactionBlock on batch: one entry per command, in command
\* order, each holding the BCS bytes of the command's return value, except
\* the positions in `absent`, which return nothing.
Simulate(batch, chain, absent) ==
  [hasResults |-> TRUE,
   results |-> [i \in 1..Len(batch) |->
                  IF i \in absent THEN NoReturn
                  ELSE Returned(ChainValue(chain, batch[i].fn))]]

NoResults == [hasResults |-> FALSE, results |-> << >>]

\* Which positions may come back empty: none, or any single one.
AbsentSets(batch) == { {} } \cup { {i} : i \in 1..Len(batch) }

\* The batches a caller may hand in: up to MaxPre calls of its own.
RECURSIVE OtherCalls(_)
OtherCalls(n) == IF n = 0 THEN << >> ELSE Append(OtherCalls(n - 1), OtherCall)

GivenBatches == { OtherCalls(n) : n \in 0..MaxPre }

SupplierCapIds == { Undefined, "", "0xcap" }

\* Pool objects.
InterestConfigs ==
  { [base_rate |-> 100000000, base_slope |-> 0, excess_slope |-> 0,
     optimal_utilization |-> 800000000],
    [base_rate |-> 20000000, base_slope |-> 100000000,
     excess_slope |-> 1000000000, optimal_utilization |-> 800000000],
    [base_rate |-> 0, base_slope |-> 333333333, excess_slope |-> 999999999,
     optimal_utilization |-> 333333333] }

MarginPoolConfigs ==
  { [max_utilization_rate |-> 1000000000, min_borrow |-> 0,
     protocol_spread |-> 0, supply_cap |-> 0],
    [max_utilization_rate |-> 900000000, min_borrow |-> 10000000,
     protocol_spread |-> 100000000, supply_cap |-> 2000000000] }

PoolStates ==
  { [total_supply |-> 1000000000, total_borrow |-> 500000000],
    [total_supply |-> 1000000000, total_borrow |-> 1000000000],
    [total_supply |-> 3, total_borrow |-> 2],
    [total_supply |-> 0, total_borrow |-> 0],
    [total_supply |-> 0, total_borrow |-> 5] }

PoolObject(ic, mc, st) ==
  [data |-> [config |-> [interest_config |-> ic, margin_pool_config |-> mc],
             state |-> st]]

\* r without its field f.
Without(r, f) == [k \in DOMAIN r \ {f} |-> r[k]]

\* Responses that lack a part of the expected structure, cut out of one
\* well-formed object.
MalformedObjects ==
  LET ic == CHOOSE x \in InterestConfigs : x.base_slope > 0 /\ x.base_rate > 0
      mc == CHOOSE x \in MarginPoolConfigs : x.protocol_spread > 0
      st == CHOOSE x \in PoolStates : x.total_supply > x.total_borrow /\ x.total_supply > 3
      full == PoolObject(ic, mc, st)
  IN  {  Without(full, "data"),
         [data |-> Without(full.data, "config")],
         [data |-> Without(full.data, "state")],
         [data |-> [config |-> Without(full.data.config, "interest_config"),
                    state |-> st]],
         [data |-> [config |-> Without(full.data.config, "margin_pool_config"),
                    state |-> st]] }
      \cup { PoolObject(Without(ic, f), mc, st) : f \in DOMAIN ic }
      \cup { PoolObject(ic, Without(mc, f), st) : f \in DOMAIN mc }
      \cup { PoolObject(ic, mc, Without(st, f)) : f \in DOMAIN st }

ObjectResponses ==
  { PoolObject(ic, mc, st) :
      ic \in InterestConfigs, mc \in MarginPoolConfigs, st \in PoolStates }
  \cup MalformedObjects

(***************************************************************************)
(* One getPoolParameters request                                           *)
(***************************************************************************)
VARIABLES
  pc,               \* where the request is: "idle", "awaitSimulation",
                    \* "awaitObject", "returned", "failed"
  coinKey,          \* argument coinKey
  supplierCapId,    \* argument supplierCapId (Undefined if not given)
  inspect,          \* argument inspect
  given,            \* the Transaction as the caller handed it in
  tx,               \* the Transaction (a sequence of calls)
  inspectResult,    \* what devInspectTransactionBlock resolved with
  parsed,           \* the decoded map
  formattedResult,  \* the formatted bundle before the curve values
  response,         \* what getObject resolved with
  result,           \* the bundle the request resolved with
  error,            \* the error the request rejected with
  simCalls,         \* devInspectTransactionBlock calls issued
  fetchCalls,       \* getObject calls issued
  paramKey,         \* argument of a direct #addParamCall
  curve,            \* a direct evaluation of #computeBorrowAprAtUtil
  requests,         \* the getPoolParameters invocations in flight on one
                    \* instance: each invocation's arguments and locals
  onChain,          \* what the chain answers now: the state the simulation
                    \* reads and the pool object getObject returns
  mulCall,          \* a direct evaluation of mul on 64-bit operands
  toolkit,          \* a DeepBookMarginToolkit instance and its call in flight
  account,          \* the chain's side of the toolkit's address: the
                    \* SupplierCap objects it owns and how many were minted
  initCalls,        \* initialize() invocations in flight at the same time
  supplyAprCall,    \* a direct evaluation of #calculateKinksAndRate
  envFile,          \* the .env file: its content, or NoFile
  processEnv,       \* process.env: the variables that are set
  envCall           \* the last call of an env utility and its outcome

\* The variables of the single request, of the concurrent requests, of the
\* mul evaluation, of the toolkit, of the supply-APR evaluation and of the
\* env utilities.
requestVars == << pc, coinKey, supplierCapId, inspect, given, tx, inspectResult,
                  parsed, formattedResult, response, result, error, simCalls,
                  fetchCalls, paramKey, curve >>

concurrentVars == << requests, onChain >>

mulVars == << mulCall >>

toolkitVars == << toolkit, account, initCalls >>

supplyAprVars == << supplyAprCall >>

envVars == << envFile, processEnv, envCall >>

vars == << requestVars, concurrentVars, mulVars, toolkitVars, supplyAprVars,
           envVars >>

EmptyMap == [k \in {} |-> 0]

NoCurve == [evaluated |-> FALSE, cfg |-> EmptyMap, u1 |-> 0, u2 |-> 0,
            r1 |-> 0, r2 |-> 0]

\* The getPoolParameters invocations of the concurrent specification.
RequestIds == { "first", "second" }

\* An invocation that has not been called yet: its arguments and locals.
IdleInvocation ==
  [pc |-> "idle", coinKey |-> "-", supplierCapId |-> Undefined, tx |-> << >>,
   inspectResult |-> NoResults, parsed |-> EmptyMap,
   formattedResult |-> EmptyMap, response |-> EmptyMap, result |-> EmptyMap,
   error |-> NoError]

NoRequests == [r \in RequestIds |-> IdleInvocation]

\* What the chain can answer: the state the read calls see and the pool
\* object.  The first is the state at construction; the others have a
\* different total_borrow in the pool and different values for the read
\* calls.
OnChainStates ==
  LET ic == [base_rate |-> 100000000, base_slope |-> 0, excess_slope |-> 0,
             optimal_utilization |-> 800000000]
      mc == [max_utilization_rate |-> 1000000000, min_borrow |-> 0,
             protocol_spread |-> 0, supply_cap |-> 0]
  IN  { [chain |-> "B",
         object |-> PoolObject(ic, mc, [total_supply |-> 1000000000,
                                        total_borrow |-> 500000000])],
        [chain |-> "C",
         object |-> PoolObject(ic, mc, [total_supply |-> 1000000000,
                                        total_borrow |-> 1000000000])],
        [chain |-> "A",
         object |-> PoolObject(ic, mc, [total_supply |-> 1000000000,
                                        total_borrow |-> 1000000000])] }

FirstOnChain ==
  CHOOSE s \in OnChainStates :
    s.chain = "B" /\ s.object.data.state.total_borrow = 500000000

\* No mul evaluation yet.
NoMulCall == [evaluated |-> FALSE, a |-> << >>, b |-> << >>, result |-> << >>]

\* An address that owns no SupplierCap, and nothing minted so far.
NoAccount == [supplierCaps |-> << >>, minted |-> 0]

\* The two initialize() invocations that may overlap, not yet called.
InitializeIds == { "first", "second" }

NoInitCalls ==
  [i \in InitializeIds |-> [pc |-> "idle", returned |-> "-", error |-> NoError]]

\* No transaction executed: no effects.status to look at.
NoEffects == [success |-> FALSE, error |-> "<not executed>"]

\* A toolkit on which nothing has been called.
NoToolkit ==
  [supplierCapId |-> Undefined, pc |-> "idle", op |-> "-", coin |-> "-",
   userSupplyAmount |-> Zero, returned |-> "-", error |-> NoError,
   effects |-> NoEffects, initializeReturned |-> "-",
   calls |-> 0, listed |-> 0, executed |-> 0, simulated |-> 0,
   balanceCalls |-> 0]

\* No evaluation of #calculateKinksAndRate.
NoSupplyAprCall ==
  [evaluated |-> FALSE, borrowApr |-> 0, protocol_spread |-> 0,
   state |-> [total_supply |-> 1, total_borrow |-> 0], raw |-> << >>]

\* No .env file at ENV_FILE_PATH.
NoFile == [exists |-> FALSE, content |-> << >>]

NoEnvCall ==
  [op |-> "-", key |-> << >>, value |-> << >>, outcome |-> "-",
   error |-> NoError, warned |-> FALSE, wrote |-> FALSE,
   fileBefore |-> NoFile, envBefore |-> << >>, calls |-> 0]

Init ==
  /\ pc = "idle"
  /\ coinKey = "-"
  /\ supplierCapId = Undefined
  /\ inspect = TRUE
  /\ given = << >>
  /\ tx = << >>
  /\ inspectResult = NoResults
  /\ parsed = EmptyMap
  /\ formattedResult = EmptyMap
  /\ response = EmptyMap
  /\ result = EmptyMap
  /\ error = NoError
  /\ simCalls = 0
  /\ fetchCalls = 0
  /\ paramKey = "-"
  /\ curve = NoCurve
  /\ requests = NoRequests
  /\ onChain = FirstOnChain
  /\ mulCall = NoMulCall
  /\ toolkit = NoToolkit
  /\ account = NoAccount
  /\ initCalls = NoInitCalls
  /\ supplyAprCall = NoSupplyAprCall
  /\ envFile = NoFile
  /\ processEnv = EmptyMap
  /\ envCall = NoEnvCall

\* Faulty variant of getPoolParameters: the inspect flag is ignored and the
\* batch is always simulated.
CallAlwaysInspects(c, cap, batch, insp) ==
  /\ pc = "idle"
  /\ LET b == BuildBatch(batch, c, cap)
     IN  /\ tx' = b.tx
         /\ error' = b.error
         /\ pc' = IF b.error # NoError THEN "failed" ELSE "awaitSimulation"
         /\ simCalls' = IF b.error = NoError THEN simCalls + 1 ELSE simCalls
  /\ coinKey' = c
  /\ supplierCapId' = cap
  /\ inspect' = insp
  /\ given' = batch
  /\ UNCHANGED << inspectResult, parsed, formattedResult, response, result,
                  fetchCalls, paramKey, curve >>
  /\ UNCHANGED << concurrentVars, mulVars, toolkitVars,
                  supplyAprVars, envVars >>

\* Faulty variant of getPoolParameters: the pool-object fetch is issued
\* together with the simulation instead of after it.
CallFetchesWithSimulation(c, cap, batch, insp) ==
  /\ pc = "idle"
  /\ LET b == BuildBatch(batch, c, cap)
     IN  /\ tx' = b.tx
         /\ error' = b.error
         /\ pc' = IF b.error # NoError THEN "failed"
                  ELSE IF ~insp THEN "returned"
                  ELSE "awaitSimulation"
         /\ simCalls' = IF b.error = NoError /\ insp THEN simCalls + 1 ELSE simCalls
         /\ fetchCalls' = IF b.error = NoError /\ insp THEN fetchCalls + 1
                          ELSE fetchCalls
  /\ coinKey' = c
  /\ supplierCapId' = cap
  /\ inspect' = insp
  /\ given' = batch
  /\ UNCHANGED << inspectResult, parsed, formattedResult, response, result,
                  paramKey, curve >>
  /\ UNCHANGED << concurrentVars, mulVars, toolkitVars,
                  supplyAprVars, envVars >>

\* getPoolParameters(c, cap, batch, insp) up to its first await: the batch
\* is built; with inspect off the Transaction is returned, otherwise the
\* simulation is issued.
Call(c, cap, batch, insp) ==
  /\ pc = "idle"
  /\ LET b == BuildBatch(batch, c, cap)
     IN  /\ tx' = b.tx
         /\ error' = b.error
         /\ pc' = IF b.error # NoError THEN "failed"
                  ELSE IF ~insp THEN "returned"
                  ELSE "awaitSimulation"
         /\ simCalls' = IF b.error = NoError /\ insp THEN simCalls + 1 ELSE simCalls
  /\ coinKey' = c
  /\ supplierCapId' = cap
  /\ inspect' = insp
  /\ given' = batch
  /\ UNCHANGED << inspectResult, parsed, formattedResult, response, result,
                  fetchCalls, paramKey, curve >>
  /\ UNCHANGED << concurrentVars, mulVars, toolkitVars,
                  supplyAprVars, envVars >>

\* The simulation resolves: decode, format, then #getInterestConfig issues
\* the object fetch (lines 413-420, 326-332).
SimulationReturns(res) ==
  /\ pc = "awaitSimulation"
  /\ inspectResult' = res
  /\ parsed' = parseInspectResultToBcsStructs(res, AllKeys)
  /\ formattedResult' = formatResult(parsed', coinKey)
  /\ fetchCalls' = fetchCalls + 1
  /\ pc' = "awaitObject"
  /\ UNCHANGED << coinKey, supplierCapId, inspect, given, tx, response, result,
                  error, simCalls, paramKey, curve >>
  /\ UNCHANGED << concurrentVars, mulVars, toolkitVars,
                  supplyAprVars, envVars >>

\* Faulty variant of a rejected simulation: the simulation is issued again
\* (up to three times) instead of the error reaching the caller.
SimulationFailsAndRetries ==
  /\ pc = "awaitSimulation"
  /\ IF simCalls < 3
       THEN /\ simCalls' = simCalls + 1
            /\ UNCHANGED << pc, error >>
       ELSE /\ pc' = "failed"
            /\ error' = "devInspectTransactionBlock failed"
            /\ UNCHANGED simCalls
  /\ UNCHANGED << coinKey, supplierCapId, inspect, given, tx, inspectResult,
                  parsed, formattedResult, response, result,
                  fetchCalls, paramKey, curve >>
  /\ UNCHANGED << concurrentVars, mulVars, toolkitVars,
                  supplyAprVars, envVars >>

\* The simulation rejects: the error propagates.
SimulationFails ==
  /\ pc = "awaitSimulation"
  /\ pc' = "failed"
  /\ error' = "devInspectTransactionBlock failed"
  /\ UNCHANGED << coinKey, supplierCapId, inspect, given, tx, inspectResult,
                  parsed, formattedResult, response, result, simCalls,
                  fetchCalls, paramKey, curve >>
  /\ UNCHANGED << concurrentVars, mulVars, toolkitVars,
                  supplyAprVars, envVars >>

\* The object fetch resolves: the curve values are computed and merged over
\* the formatted bundle (lines 334-345, 422-425), or the computation throws.
ObjectReturns(resp) ==
  /\ pc = "awaitObject"
  /\ response' = resp
  /\ LET interestData ==
           interestConfigOfResponse(resp,
             timesFloatScalar(formattedResult["interestRate"]))
     IN  IF interestData.error # NoError
           THEN /\ pc' = "failed"
                /\ error' = interestData.error
                /\ result' = result
           ELSE /\ pc' = "returned"
                /\ error' = error
                /\ result' = interestData.normalized @@ formattedResult
  /\ UNCHANGED << coinKey, supplierCapId, inspect, given, tx, inspectResult,
                  parsed, formattedResult, simCalls, fetchCalls, paramKey, curve >>
  /\ UNCHANGED << concurrentVars, mulVars, toolkitVars,
                  supplyAprVars, envVars >>

\* The object fetch rejects: the error propagates.
ObjectFetchFails ==
  /\ pc = "awaitObject"
  /\ pc' = "failed"
  /\ error' = "getObject failed"
  /\ UNCHANGED << coinKey, supplierCapId, inspect, given, tx, inspectResult,
                  parsed, formattedResult, response, result, simCalls,
                  fetchCalls, paramKey, curve >>
  /\ UNCHANGED << concurrentVars, mulVars, toolkitVars,
                  supplyAprVars, envVars >>

Next ==
  \/ \E c \in CoinKeys, cap \in SupplierCapIds, batch \in GivenBatches,
        insp \in BOOLEAN : Call(c, cap, batch, insp)
  \/ \E chain \in ChainNames : \E absent \in AbsentSets(tx) :
        SimulationReturns(Simulate(tx, chain, absent))
  \/ SimulationReturns(NoResults)
  \/ SimulationFails
  \/ \E resp \in ObjectResponses : ObjectReturns(resp)
  \/ ObjectFetchFails

Spec == Init /\ [][Next]_vars

(***************************************************************************)
(* #addParamCall on its own                                                *)
(***************************************************************************)
\* #addParamCall(batch, key, c, cap) called directly on a Transaction.
DirectAddParamCall(batch, key, c, cap) ==
  /\ pc = "idle"
  /\ LET r == addParamCall(batch, key, c, cap)
     IN  /\ tx' = r.tx
         /\ error' = r.error
         /\ pc' = IF r.error # NoError THEN "failed" ELSE "returned"
  /\ given' = batch
  /\ paramKey' = key
  /\ coinKey' = c
  /\ supplierCapId' = cap
  /\ UNCHANGED << inspect, inspectResult, parsed, formattedResult, response,
                  result, simCalls, fetchCalls, curve >>
  /\ UNCHANGED << concurrentVars, mulVars, toolkitVars,
                  supplyAprVars, envVars >>

NextAddParamCall ==
  \E batch \in GivenBatches, key \in Range(AllKeys), c \in CoinKeys,
     cap \in SupplierCapIds : DirectAddParamCall(batch, key, c, cap)

SpecAddParamCall == Init /\ [][NextAddParamCall]_vars

(***************************************************************************)
(* #computeBorrowAprAtUtil on its own                                      *)
(***************************************************************************)
CurveConfigs ==
  [base_rate : {0, 1, 100000000},
   base_slope : {0, 3, 333333333, 1000000000},
   excess_slope : {0, 7, 999999999, 1000000000},
   optimal_utilization : {0, 1, 333333333, 800000000, 1000000000}]

Utilizations ==
  { 0, 1, 2, 333333332, 333333333, 333333334, 500000000, 799999999,
    800000000, 800000001, 999999999, 1000000000 }

InitCurve ==
  /\ pc = "idle"
  /\ coinKey = "-"
  /\ supplierCapId = Undefined
  /\ inspect = TRUE
  /\ given = << >>
  /\ tx = << >>
  /\ inspectResult = NoResults
  /\ parsed = EmptyMap
  /\ formattedResult = EmptyMap
  /\ response = EmptyMap
  /\ result = EmptyMap
  /\ error = NoError
  /\ simCalls = 0
  /\ fetchCalls = 0
  /\ paramKey = "-"
  /\ curve \in { [evaluated |-> FALSE, cfg |-> c, u1 |-> p[1], u2 |-> p[2],
                  r1 |-> 0, r2 |-> 0] :
                 c \in CurveConfigs,
                 p \in { q \in Utilizations \X Utilizations : q[1] <= q[2] } }
  /\ requests = NoRequests
  /\ onChain = FirstOnChain
  /\ mulCall = NoMulCall
  /\ toolkit = NoToolkit
  /\ account = NoAccount
  /\ initCalls = NoInitCalls
  /\ supplyAprCall = NoSupplyAprCall
  /\ envFile = NoFile
  /\ processEnv = EmptyMap
  /\ envCall = NoEnvCall

\* The curve is evaluated at both utilizations.
EvalCurve ==
  /\ ~curve.evaluated
  /\ curve' = [curve EXCEPT !.evaluated = TRUE,
                            !.r1 = computeBorrowAprAtUtil(curve.u1, curve.cfg),
                            !.r2 = computeBorrowAprAtUtil(curve.u2, curve.cfg)]
  /\ UNCHANGED << pc, coinKey, supplierCapId, inspect, given, tx, inspectResult,
                  parsed, formattedResult, response, result, error, simCalls,
                  fetchCalls, paramKey >>
  /\ UNCHANGED << concurrentVars, mulVars, toolkitVars,
                  supplyAprVars, envVars >>

SpecCurve == InitCurve /\ [][EvalCurve]_vars

(***************************************************************************)
(* Two getPoolParameters requests on one instance                          *)
(***************************************************************************)
\* The instance has no field that a method writes (the constructor sets
\* dbConfig, suiClient and marginPoolContract, lines 86-109); everything a
\* request computes lives in the locals of its invocation.

\* Faulty variant of the fetch: the pool object of an earlier request is kept
\* and served again instead of asking the client.
fetchedObjectCached(reqs, r, chainNow) ==
  IF \E q \in DOMAIN reqs : q # r /\ reqs[q].response # EmptyMap
    THEN LET q == CHOOSE x \in DOMAIN reqs : x # r /\ reqs[x].response # EmptyMap
         IN  reqs[q].response
    ELSE chainNow.object

\* What await this.suiClient.getObject(...) resolves with for request r
\* (lines 327-332): the pool object as the chain holds it now.
fetchedObject(reqs, r, chainNow) == chainNow.object

InitConcurrent ==
  /\ pc = "idle"
  /\ coinKey = "-"
  /\ supplierCapId = Undefined
  /\ inspect = TRUE
  /\ given = << >>
  /\ tx = << >>
  /\ inspectResult = NoResults
  /\ parsed = EmptyMap
  /\ formattedResult = EmptyMap
  /\ response = EmptyMap
  /\ result = EmptyMap
  /\ error = NoError
  /\ simCalls = 0
  /\ fetchCalls = 0
  /\ paramKey = "-"
  /\ curve = NoCurve
  /\ requests = NoRequests
  /\ onChain = FirstOnChain
  /\ mulCall = NoMulCall
  /\ toolkit = NoToolkit
  /\ account = NoAccount
  /\ initCalls = NoInitCalls
  /\ supplyAprCall = NoSupplyAprCall
  /\ envFile = NoFile
  /\ processEnv = EmptyMap
  /\ envCall = NoEnvCall

\* Request r is called with a Transaction of its own and runs up to the
\* await of the simulation.
ConcurrentCall(r, c, cap) ==
  /\ requests[r].pc = "idle"
  /\ LET b == BuildBatch(<< >>, c, cap)
     IN  requests' = [requests EXCEPT
           ![r] = [@ EXCEPT !.coinKey = c, !.supplierCapId = cap, !.tx = b.tx,
                            !.error = b.error,
                            !.pc = IF b.error # NoError THEN "failed"
                                   ELSE "awaitSimulation"]]
  /\ UNCHANGED << onChain, requestVars, mulVars, toolkitVars,
                  supplyAprVars, envVars >>

\* The simulation of request r resolves with what the chain holds now; the
\* request decodes, formats and issues its object fetch.
ConcurrentSimulationReturns(r) ==
  /\ requests[r].pc = "awaitSimulation"
  /\ LET res == Simulate(requests[r].tx, onChain.chain, {})
         decoded == parseInspectResultToBcsStructs(res, AllKeys)
     IN  requests' = [requests EXCEPT
           ![r] = [@ EXCEPT !.inspectResult = res, !.parsed = decoded,
                            !.formattedResult =
                              formatResult(decoded, requests[r].coinKey),
                            !.pc = "awaitObject"]]
  /\ UNCHANGED << onChain, requestVars, mulVars, toolkitVars,
                  supplyAprVars, envVars >>

ConcurrentSimulationFails(r) ==
  /\ requests[r].pc = "awaitSimulation"
  /\ requests' = [requests EXCEPT
       ![r] = [@ EXCEPT !.pc = "failed",
                        !.error = "devInspectTransactionBlock failed"]]
  /\ UNCHANGED << onChain, requestVars, mulVars, toolkitVars,
                  supplyAprVars, envVars >>

\* The object fetch of request r resolves; the curve values are computed and
\* merged over the request's formatted bundle, or the computation throws.
ConcurrentObjectReturns(r) ==
  /\ requests[r].pc = "awaitObject"
  /\ LET resp == fetchedObject(requests, r, onChain)
         interestData ==
           interestConfigOfResponse(resp,
             timesFloatScalar(requests[r].formattedResult["interestRate"]))
     IN  requests' = [requests EXCEPT
           ![r] = IF interestData.error # NoError
                    THEN [@ EXCEPT !.response = resp, !.pc = "failed",
                                   !.error = interestData.error]
                    ELSE [@ EXCEPT !.response = resp, !.pc = "returned",
                                   !.result =
                                     interestData.normalized
                                       @@ requests[r].formattedResult]]
  /\ UNCHANGED << onChain, requestVars, mulVars, toolkitVars,
                  supplyAprVars, envVars >>

ConcurrentObjectFetchFails(r) ==
  /\ requests[r].pc = "awaitObject"
  /\ requests' = [requests EXCEPT
       ![r] = [@ EXCEPT !.pc = "failed", !.error = "getObject failed"]]
  /\ UNCHANGED << onChain, requestVars, mulVars, toolkitVars,
                  supplyAprVars, envVars >>

\* Other transactions change the pool; the chain never returns to the state
\* it had at the start.
ChainAdvances(s) ==
  /\ s # onChain
  /\ s # FirstOnChain
  /\ onChain' = s
  /\ UNCHANGED << requests, requestVars, mulVars, toolkitVars,
                  supplyAprVars, envVars >>

NextConcurrent ==
  \/ \E r \in RequestIds, c \in CoinKeys, cap \in { Undefined, "0xcap" } :
        ConcurrentCall(r, c, cap)
  \/ \E r \in RequestIds : ConcurrentSimulationReturns(r)
  \/ \E r \in RequestIds : ConcurrentSimulationFails(r)
  \/ \E r \in RequestIds : ConcurrentObjectReturns(r)
  \/ \E r \in RequestIds : ConcurrentObjectFetchFails(r)
  \/ \E s \in OnChainStates : ChainAdvances(s)

SpecConcurrent == InitConcurrent /\ [][NextConcurrent]_vars

(***************************************************************************)
(* mul on its own                                                          *)
(***************************************************************************)
\* Operands from 0 to 2^64 - 1: 0, 1, 2, 10^9 - 1, 10^9, 10^9 / 2, 10^9 + 1,
\* 2^32, 2^53 + 1, 3037000500, 2^63, 12345678901234567890, 2^64 - 1.
MulOperands ==
  { << >>, << 1 >>, << 2 >>, << 999, 999, 999 >>, << 0, 0, 0, 1 >>,
    << 0, 0, 500 >>, << 1, 0, 0, 1 >>, << 296, 967, 294, 4 >>,
    << 993, 740, 254, 199, 7, 9 >>, << 500, 0, 37, 3 >>,
    << 808, 775, 854, 36, 372, 223, 9 >>,
    << 890, 567, 234, 901, 678, 345, 12 >>,
    << 615, 551, 709, 73, 744, 446, 18 >> }

InitMul ==
  /\ pc = "idle"
  /\ coinKey = "-"
  /\ supplierCapId = Undefined
  /\ inspect = TRUE
  /\ given = << >>
  /\ tx = << >>
  /\ inspectResult = NoResults
  /\ parsed = EmptyMap
  /\ formattedResult = EmptyMap
  /\ response = EmptyMap
  /\ result = EmptyMap
  /\ error = NoError
  /\ simCalls = 0
  /\ fetchCalls = 0
  /\ paramKey = "-"
  /\ curve = NoCurve
  /\ requests = NoRequests
  /\ onChain = FirstOnChain
  /\ mulCall \in { [evaluated |-> FALSE, a |-> x, b |-> y, result |-> << >>] :
                   x \in MulOperands, y \in MulOperands }
  /\ toolkit = NoToolkit
  /\ account = NoAccount
  /\ initCalls = NoInitCalls
  /\ supplyAprCall = NoSupplyAprCall
  /\ envFile = NoFile
  /\ processEnv = EmptyMap
  /\ envCall = NoEnvCall

\* mul(a, b) is evaluated.
EvalMul ==
  /\ ~mulCall.evaluated
  /\ mulCall' = [mulCall EXCEPT !.evaluated = TRUE,
                                !.result = mulLimbs(mulCall.a, mulCall.b)]
  /\ UNCHANGED << requestVars, concurrentVars, toolkitVars,
                  supplyAprVars, envVars >>

SpecMul == InitMul /\ [][EvalMul]_vars

(***************************************************************************)
(* DeepBookMarginToolkit, its operations awaited one at a time             *)
(***************************************************************************)
\* toolkit.supplierCapId is this.supplierCapId; pc is where the operation in
\* flight stands ("idle", "awaitList", "awaitBuild", "awaitExecute",
\* "awaitCreate", "awaitSimulate", "awaitBalance", "returned", "failed");
\* listed, executed, simulated and balanceCalls count the listOwnedObjects,
\* executeTransaction, simulateTransaction and getBalance calls sent to the
\* client; initializeReturned is what the last initialize() that returned
\* has returned.
ToolkitOps ==
  { "supplyToMarginPool", "withdrawFromMarginPool", "getBalance",
    "withdrawReferralFees", "initialize", "createSupplierCap",
    "createSupplyReferral" }

\* The operations that mint an object and look for it in the effects.
CreateOps == { "initialize", "createSupplierCap", "createSupplyReferral" }

\* The operations that begin with the guard `if (!this.supplierCapId) throw`.
requiresSupplierCap(op) ==
  op \in { "supplyToMarginPool", "withdrawFromMarginPool", "getBalance" }

\* The prefix each operation's catch block puts before the error message.
ErrorPrefix(op) ==
  CASE op = "supplyToMarginPool" -> "Failed to supply to margin pool: "
    [] op = "withdrawFromMarginPool" -> "Failed to withdraw from margin pool: "
    [] op = "withdrawReferralFees" -> "Failed to withdraw referral fees: "
    [] op \in { "initialize", "createSupplierCap" }
         -> "Failed to create Supplier Cap: "
    [] op = "createSupplyReferral" -> "Failed to create Supply Referral: "
    [] OTHER -> "Failed to get balance: "

NotInitialized == "Supplier Cap not initialized. Call initialize() first."

\* Faulty variant of the guard: only a missing ID counts as uninitialized, an
\* empty one passes.
capInitializedIfDefined(cap) == cap # Undefined

\* The guard `if (!this.supplierCapId) throw ...` passes.
capInitialized(cap) == Truthy(cap)

\* What executeTransaction can resolve with: effects.status of the
\* Transaction or FailedTransaction.
ExecutionOutcomes ==
  { [success |-> TRUE, error |-> ""],
    [success |-> FALSE, error |-> "MoveAbort"],
    [success |-> FALSE, error |-> ""] }

\* What executeTransaction can resolve with for a minting transaction:
\* reported says whether changedObjects lists a created object of the type
\* looked for.
CreationOutcomes ==
  { [success |-> TRUE, error |-> "", reported |-> TRUE],
    [success |-> TRUE, error |-> "", reported |-> FALSE],
    [success |-> FALSE, error |-> "MoveAbort", reported |-> FALSE] }

\* null, as createSupplierCap and createSupplyReferral return it.
Null == "<null>"

\* The object ID of the n-th Supplier Cap minted for the address.
MintedCapId(n) == "0xminted" \o ToString(n)

\* The addresses a toolkit may be made for: one that owns no SupplierCap and
\* one that owns one.
Accounts == { NoAccount, [supplierCaps |-> << "0xowned" >>, minted |-> 0] }

\* #getExistingSupplierCapId once listOwnedObjects has resolved:
\* resp.objects?.[0]?.objectId.
getExistingSupplierCapId(acc) ==
  IF acc.supplierCaps = << >> THEN Undefined ELSE Head(acc.supplierCaps)

\* The address after a minting transaction of op has been executed.
accountAfter(op, outcome, acc) ==
  IF outcome.success /\ op \in { "initialize", "createSupplierCap" }
    THEN [supplierCaps |-> Append(acc.supplierCaps, MintedCapId(acc.minted + 1)),
          minted |-> acc.minted + 1]
    ELSE acc

\* What the loop over changedObjects returns after a successful minting
\* transaction: the ID of the created object, or null.
createdObjectId(op, outcome, acc) ==
  IF ~outcome.reported THEN Null
  ELSE IF op = "createSupplyReferral" THEN "0xreferral"
  ELSE MintedCapId(acc.minted + 1)

\* Faulty variant: createSupplierCap stores the ID it minted as well.
afterCreateStoredByCreate(op, stored, capId) ==
  IF op = "initialize" /\ capId = Null
    THEN [pc |-> "failed", returned |-> "-",
          error |-> "Failed to create Supplier Cap", supplierCapId |-> stored]
    ELSE [pc |-> "returned", returned |-> capId, error |-> NoError,
          supplierCapId |-> IF op \in { "initialize", "createSupplierCap" }
                                /\ capId # Null
                              THEN capId ELSE stored]

\* Faulty variant: initialize does not check the ID createSupplierCap
\* returned.
afterCreateUnchecked(op, stored, capId) ==
  [pc |-> "returned", returned |-> capId, error |-> NoError,
   supplierCapId |-> IF op = "initialize" THEN capId ELSE stored]

\* How the operation ends once the minted object's ID (or null) is known:
\* createSupplierCap and createSupplyReferral return it; initialize throws
\* on null and otherwise stores and returns it (lines 127-133).
afterCreate(op, stored, capId) ==
  IF op = "initialize"
    THEN IF capId = Null
           THEN [pc |-> "failed", returned |-> "-",
                 error |-> "Failed to create Supplier Cap",
                 supplierCapId |-> stored]
           ELSE [pc |-> "returned", returned |-> capId, error |-> NoError,
                 supplierCapId |-> capId]
    ELSE [pc |-> "returned", returned |-> capId, error |-> NoError,
          supplierCapId |-> stored]

\* getSupplierCapId().
getSupplierCapId(t) == t.supplierCapId

\* What simulateTransaction can resolve with for the userSupplyAmount call:
\* no return value, or the BCS bytes of a u64.
SupplyAmountResults == { NoReturn, Returned(0), Returned(1500000000) }

\* Wallet balances (smallest units) the client can report.
WalletBalances == { 0, 1250000000 }

InitToolkit ==
  /\ pc = "idle"
  /\ coinKey = "-"
  /\ supplierCapId = Undefined
  /\ inspect = TRUE
  /\ given = << >>
  /\ tx = << >>
  /\ inspectResult = NoResults
  /\ parsed = EmptyMap
  /\ formattedResult = EmptyMap
  /\ response = EmptyMap
  /\ result = EmptyMap
  /\ error = NoError
  /\ simCalls = 0
  /\ fetchCalls = 0
  /\ paramKey = "-"
  /\ curve = NoCurve
  /\ requests = NoRequests
  /\ onChain = FirstOnChain
  /\ mulCall = NoMulCall
  /\ toolkit \in { [NoToolkit EXCEPT !.supplierCapId = cap] : cap \in SupplierCapIds }
  /\ account \in Accounts
  /\ initCalls = NoInitCalls
  /\ supplyAprCall = NoSupplyAprCall
  /\ envFile = NoFile
  /\ processEnv = EmptyMap
  /\ envCall = NoEnvCall

\* Faulty variant of the call of an operation: initialize asks the chain
\* for an owned SupplierCap even when an ID is stored.
ToolkitCallInitializeAlwaysLists(op, coin) ==
  /\ toolkit.pc \in { "idle", "returned", "failed" }
  /\ toolkit.calls < MaxToolkitCalls
  /\ LET called == [toolkit EXCEPT !.calls = @ + 1, !.op = op, !.coin = coin,
                                   !.userSupplyAmount = Zero, !.returned = "-",
                                   !.effects = NoEffects, !.error = NoError]
     IN  toolkit' =
           IF op = "initialize"
             THEN [called EXCEPT !.listed = @ + 1, !.pc = "awaitList"]
           ELSE IF requiresSupplierCap(op) /\ ~capInitialized(toolkit.supplierCapId)
             THEN [called EXCEPT !.pc = "failed",
                                 !.error = ErrorPrefix(op) \o NotInitialized]
           ELSE [called EXCEPT !.pc = "awaitBuild"]
  /\ UNCHANGED << account, initCalls >>
  /\ UNCHANGED << requestVars, concurrentVars, mulVars, supplyAprVars,
                  envVars >>

\* An operation up to its first await.  initialize returns the stored ID if
\* there is one and otherwise lists the owned SupplierCap objects; supply,
\* withdraw and getBalance begin with the guard; then the transaction is put
\* together and tx.build is awaited.
ToolkitCall(op, coin) ==
  /\ toolkit.pc \in { "idle", "returned", "failed" }
  /\ toolkit.calls < MaxToolkitCalls
  /\ LET called == [toolkit EXCEPT !.calls = @ + 1, !.op = op, !.coin = coin,
                                   !.userSupplyAmount = Zero, !.returned = "-",
                                   !.effects = NoEffects, !.error = NoError]
     IN  toolkit' =
           IF op = "initialize"
             THEN IF Truthy(toolkit.supplierCapId)
                    THEN [called EXCEPT !.pc = "returned",
                                        !.returned = toolkit.supplierCapId,
                                        !.initializeReturned = toolkit.supplierCapId]
                    ELSE [called EXCEPT !.listed = @ + 1, !.pc = "awaitList"]
           ELSE IF requiresSupplierCap(op) /\ ~capInitialized(toolkit.supplierCapId)
             THEN [called EXCEPT !.pc = "failed",
                                 !.error = ErrorPrefix(op) \o NotInitialized]
           ELSE [called EXCEPT !.pc = "awaitBuild"]
  /\ UNCHANGED << account, initCalls >>
  /\ UNCHANGED << requestVars, concurrentVars, mulVars, supplyAprVars,
                  envVars >>

\* listOwnedObjects resolved (initialize): an owned SupplierCap is stored and
\* returned; without one createSupplierCap begins.
ToolkitListReturns ==
  /\ toolkit.pc = "awaitList"
  /\ LET existingCapId == getExistingSupplierCapId(account)
     IN  toolkit' =
           IF Truthy(existingCapId)
             THEN [toolkit EXCEPT !.supplierCapId = existingCapId,
                                  !.pc = "returned",
                                  !.returned = existingCapId,
                                  !.initializeReturned = existingCapId]
             ELSE [toolkit EXCEPT !.pc = "awaitBuild"]
  /\ UNCHANGED << account, initCalls >>
  /\ UNCHANGED << requestVars, concurrentVars, mulVars, supplyAprVars,
                  envVars >>

\* tx.build resolved: the transaction is signed and executed, or (getBalance)
\* simulated.
ToolkitBuildReturns ==
  /\ toolkit.pc = "awaitBuild"
  /\ toolkit' =
       IF toolkit.op = "getBalance"
         THEN [toolkit EXCEPT !.simulated = @ + 1, !.pc = "awaitSimulate"]
         ELSE IF toolkit.op \in CreateOps
           THEN [toolkit EXCEPT !.executed = @ + 1, !.pc = "awaitCreate"]
           ELSE [toolkit EXCEPT !.executed = @ + 1, !.pc = "awaitExecute"]
  /\ UNCHANGED << account, initCalls >>
  /\ UNCHANGED << requestVars, concurrentVars, mulVars, supplyAprVars,
                  envVars >>

\* An awaited call of the client rejects: the catch block wraps the error;
\* the listing of initialize is in no try block and rejects as it is.
ToolkitAwaitRejects ==
  /\ toolkit.pc \in { "awaitList", "awaitBuild", "awaitExecute", "awaitCreate",
                      "awaitSimulate", "awaitBalance" }
  /\ toolkit' = [toolkit EXCEPT
                   !.pc = "failed",
                   !.error = IF toolkit.pc = "awaitList" THEN "client error"
                             ELSE ErrorPrefix(toolkit.op) \o "client error"]
  /\ UNCHANGED << account, initCalls >>
  /\ UNCHANGED << requestVars, concurrentVars, mulVars, supplyAprVars,
                  envVars >>

\* Faulty variant: the status of the effects is returned as the result, so
\* a failed transaction returns false instead of throwing.
ToolkitExecuteReturnsStatus(outcome) ==
  /\ toolkit.pc = "awaitExecute"
  /\ toolkit' = [toolkit EXCEPT !.pc = "returned", !.effects = outcome,
                                !.returned = outcome.success]
  /\ UNCHANGED << account, initCalls >>
  /\ UNCHANGED << requestVars, concurrentVars, mulVars, supplyAprVars,
                  envVars >>

\* executeTransaction resolved: true on success, otherwise
\* `Transaction failed: ...` is thrown and wrapped.
ToolkitExecuteReturns(outcome) ==
  /\ toolkit.pc = "awaitExecute"
  /\ toolkit' =
       IF outcome.success
         THEN [toolkit EXCEPT !.pc = "returned", !.effects = outcome,
                              !.returned = TRUE]
         ELSE [toolkit EXCEPT !.pc = "failed", !.effects = outcome,
                 !.error = ErrorPrefix(toolkit.op) \o "Transaction failed: "
                             \o (IF outcome.error # "" THEN outcome.error
                                 ELSE "Unknown error")]
  /\ UNCHANGED << account, initCalls >>
  /\ UNCHANGED << requestVars, concurrentVars, mulVars, supplyAprVars,
                  envVars >>

\* executeTransaction resolved for a minting transaction: the chain has the
\* new object if the transaction succeeded; a failed one throws
\* `Transaction failed: ...`, wrapped by the catch block; otherwise the
\* created object is looked up in the effects.
ToolkitCreateReturns(outcome) ==
  /\ toolkit.pc = "awaitCreate"
  /\ account' = accountAfter(toolkit.op, outcome, account)
  /\ toolkit' =
       IF ~outcome.success
         THEN [toolkit EXCEPT !.pc = "failed", !.effects = outcome,
                 !.error = ErrorPrefix(toolkit.op) \o "Transaction failed: "
                             \o (IF outcome.error # "" THEN outcome.error
                                 ELSE "Unknown error")]
         ELSE LET end == afterCreate(toolkit.op, toolkit.supplierCapId,
                                     createdObjectId(toolkit.op, outcome, account))
              IN  [toolkit EXCEPT
                     !.pc = end.pc, !.effects = outcome,
                     !.returned = end.returned, !.error = end.error,
                     !.supplierCapId = end.supplierCapId,
                     !.initializeReturned =
                        IF toolkit.op = "initialize" /\ end.pc = "returned"
                          THEN end.returned ELSE @]
  /\ UNCHANGED initCalls
  /\ UNCHANGED << requestVars, concurrentVars, mulVars, supplyAprVars,
                  envVars >>

\* simulateTransaction resolved (getBalance): the supply amount is decoded
\* if a return value is there, then the wallet balance is asked for.
ToolkitSimulateReturns(res) ==
  /\ toolkit.pc = "awaitSimulate"
  /\ toolkit' =
       [toolkit EXCEPT
          !.userSupplyAmount =
             IF res.present
               THEN Num(bcsU64Parse(res.bytes), getCoin(toolkit.coin).scalar)
               ELSE Zero,
          !.balanceCalls = @ + 1,
          !.pc = "awaitBalance"]
  /\ UNCHANGED << account, initCalls >>
  /\ UNCHANGED << requestVars, concurrentVars, mulVars, supplyAprVars,
                  envVars >>

\* getBalance of the client resolved: the MarginBalance is returned.
ToolkitBalanceReturns(balance) ==
  /\ toolkit.pc = "awaitBalance"
  /\ toolkit' =
       [toolkit EXCEPT
          !.pc = "returned",
          !.returned = [userSupplyAmount |-> toolkit.userSupplyAmount,
                        walletBalance |-> Num(balance, getCoin(toolkit.coin).scalar)]]
  /\ UNCHANGED << account, initCalls >>
  /\ UNCHANGED << requestVars, concurrentVars, mulVars, supplyAprVars,
                  envVars >>

NextToolkit ==
  \/ \E op \in ToolkitOps, coin \in CoinKeys : ToolkitCall(op, coin)
  \/ ToolkitListReturns
  \/ ToolkitBuildReturns
  \/ \E outcome \in CreationOutcomes : ToolkitCreateReturns(outcome)
  \/ ToolkitAwaitRejects
  \/ \E outcome \in ExecutionOutcomes : ToolkitExecuteReturns(outcome)
  \/ \E res \in SupplyAmountResults : ToolkitSimulateReturns(res)
  \/ \E balance \in WalletBalances : ToolkitBalanceReturns(balance)

SpecToolkit == InitToolkit /\ [][NextToolkit]_vars

(***************************************************************************)
(* DeepBookMarginToolkit: initialize() calls that overlap                  *)
(***************************************************************************)
\* Two initialize() calls on one instance, neither awaited before the other
\* is made: they share this.supplierCapId and the address, and a step of one
\* may come between any two awaits of the other.
InitInitialize ==
  /\ pc = "idle"
  /\ coinKey = "-"
  /\ supplierCapId = Undefined
  /\ inspect = TRUE
  /\ given = << >>
  /\ tx = << >>
  /\ inspectResult = NoResults
  /\ parsed = EmptyMap
  /\ formattedResult = EmptyMap
  /\ response = EmptyMap
  /\ result = EmptyMap
  /\ error = NoError
  /\ simCalls = 0
  /\ fetchCalls = 0
  /\ paramKey = "-"
  /\ curve = NoCurve
  /\ requests = NoRequests
  /\ onChain = FirstOnChain
  /\ mulCall = NoMulCall
  /\ toolkit \in { [NoToolkit EXCEPT !.supplierCapId = cap] : cap \in SupplierCapIds }
  /\ account \in Accounts
  /\ initCalls = NoInitCalls
  /\ supplyAprCall = NoSupplyAprCall
  /\ envFile = NoFile
  /\ processEnv = EmptyMap
  /\ envCall = NoEnvCall

\* initialize() of invocation i up to its first await (lines 114-119).
InitializeCall(i) ==
  /\ initCalls[i].pc = "idle"
  /\ initCalls' =
       [initCalls EXCEPT ![i] =
          IF Truthy(toolkit.supplierCapId)
            THEN [pc |-> "returned", returned |-> toolkit.supplierCapId,
                  error |-> NoError]
            ELSE [pc |-> "awaitList", returned |-> "-", error |-> NoError]]
  /\ UNCHANGED << toolkit, account >>
  /\ UNCHANGED << requestVars, concurrentVars, mulVars, supplyAprVars,
                  envVars >>

\* listOwnedObjects of invocation i resolved (lines 119-123, 125).
InitializeListReturns(i) ==
  /\ initCalls[i].pc = "awaitList"
  /\ LET existingCapId == getExistingSupplierCapId(account)
     IN  IF Truthy(existingCapId)
           THEN /\ toolkit' = [toolkit EXCEPT !.supplierCapId = existingCapId]
                /\ initCalls' = [initCalls EXCEPT ![i].pc = "returned",
                                                  ![i].returned = existingCapId]
           ELSE /\ initCalls' = [initCalls EXCEPT ![i].pc = "awaitBuild"]
                /\ UNCHANGED toolkit
  /\ UNCHANGED account
  /\ UNCHANGED << requestVars, concurrentVars, mulVars, supplyAprVars,
                  envVars >>

\* tx.build of invocation i's createSupplierCap resolved: the transaction is
\* signed and sent.
InitializeBuildReturns(i) ==
  /\ initCalls[i].pc = "awaitBuild"
  /\ initCalls' = [initCalls EXCEPT ![i].pc = "awaitCreate"]
  /\ UNCHANGED << toolkit, account >>
  /\ UNCHANGED << requestVars, concurrentVars, mulVars, supplyAprVars,
                  envVars >>

\* executeTransaction of invocation i's createSupplierCap resolved (lines
\* 163-186, then 127-133).
InitializeCreateReturns(i, outcome) ==
  /\ initCalls[i].pc = "awaitCreate"
  /\ account' = accountAfter("initialize", outcome, account)
  /\ IF ~outcome.success
       THEN /\ initCalls' =
                 [initCalls EXCEPT
                    ![i].pc = "failed",
                    ![i].error = ErrorPrefix("initialize") \o "Transaction failed: "
                                   \o (IF outcome.error # "" THEN outcome.error
                                       ELSE "Unknown error")]
            /\ UNCHANGED toolkit
       ELSE LET end == afterCreate("initialize", toolkit.supplierCapId,
                                   createdObjectId("initialize", outcome, account))
            IN  /\ initCalls' = [initCalls EXCEPT ![i].pc = end.pc,
                                                  ![i].returned = end.returned,
                                                  ![i].error = end.error]
                /\ toolkit' = [toolkit EXCEPT !.supplierCapId = end.supplierCapId]
  /\ UNCHANGED << requestVars, concurrentVars, mulVars, supplyAprVars,
                  envVars >>

\* An awaited call of the client rejects in invocation i.
InitializeRejects(i) ==
  /\ initCalls[i].pc \in { "awaitList", "awaitBuild", "awaitCreate" }
  /\ initCalls' =
       [initCalls EXCEPT
          ![i].pc = "failed",
          ![i].error = IF initCalls[i].pc = "awaitList" THEN "client error"
                       ELSE ErrorPrefix("initialize") \o "client error"]
  /\ UNCHANGED << toolkit, account >>
  /\ UNCHANGED << requestVars, concurrentVars, mulVars, supplyAprVars,
                  envVars >>

NextInitialize ==
  \/ \E i \in InitializeIds : InitializeCall(i)
  \/ \E i \in InitializeIds : InitializeListReturns(i)
  \/ \E i \in InitializeIds : InitializeBuildReturns(i)
  \/ \E i \in InitializeIds, outcome \in CreationOutcomes :
        InitializeCreateReturns(i, outcome)
  \/ \E i \in InitializeIds : InitializeRejects(i)

SpecInitialize == InitInitialize /\ [][NextInitialize]_vars

(***************************************************************************)
(* #calculateKinksAndRate on its own                                       *)
(***************************************************************************)
\* Current borrow APRs (1e9-scaled): 0, the smallest, 5%, 13.2349692%, 100%.
BorrowAprs == { 0, 1, 50000000, 132349692, 1000000000 }

\* Protocol spreads (1e9-scaled), the last one above 100%.
ProtocolSpreads == { 0, 1, 100000000, 999999999, 1000000000, 1100000000 }

\* Pool states with total_supply > 0: utilization 0, 10^-9, 1/2, 2/3,
\* 1 - 10^-9, 1 and (more borrowed than supplied) 3/2.
SupplyStates ==
  { [total_supply |-> 1, total_borrow |-> 0],
    [total_supply |-> 1000000000, total_borrow |-> 1],
    [total_supply |-> 2, total_borrow |-> 1],
    [total_supply |-> 3, total_borrow |-> 2],
    [total_supply |-> 1000000000, total_borrow |-> 999999999],
    [total_supply |-> 1, total_borrow |-> 1],
    [total_supply |-> 2, total_borrow |-> 3] }

InitSupplyApr ==
  /\ pc = "idle"
  /\ coinKey = "-"
  /\ supplierCapId = Undefined
  /\ inspect = TRUE
  /\ given = << >>
  /\ tx = << >>
  /\ inspectResult = NoResults
  /\ parsed = EmptyMap
  /\ formattedResult = EmptyMap
  /\ response = EmptyMap
  /\ result = EmptyMap
  /\ error = NoError
  /\ simCalls = 0
  /\ fetchCalls = 0
  /\ paramKey = "-"
  /\ curve = NoCurve
  /\ requests = NoRequests
  /\ onChain = FirstOnChain
  /\ mulCall = NoMulCall
  /\ toolkit = NoToolkit
  /\ account = NoAccount
  /\ initCalls = NoInitCalls
  /\ supplyAprCall \in { [NoSupplyAprCall EXCEPT !.borrowApr = b,
                                                 !.protocol_spread = s,
                                                 !.state = st] :
                         b \in BorrowAprs, s \in ProtocolSpreads,
                         st \in SupplyStates }
  /\ envFile = NoFile
  /\ processEnv = EmptyMap
  /\ envCall = NoEnvCall

\* #calculateKinksAndRate(interestConfig, marginPoolConfig, state, borrowApr)
\* on the chosen borrow APR, spread and state.
EvalSupplyApr ==
  /\ ~supplyAprCall.evaluated
  /\ LET ic == [base_rate |-> 20000000, base_slope |-> 100000000,
                excess_slope |-> 1000000000, optimal_utilization |-> 800000000]
         mc == [max_utilization_rate |-> 1000000000, min_borrow |-> 0,
                protocol_spread |-> supplyAprCall.protocol_spread,
                supply_cap |-> 0]
     IN  supplyAprCall' =
           [supplyAprCall EXCEPT
              !.evaluated = TRUE,
              !.raw = calculateKinksAndRateRaw(
                        ic, mc, supplyAprCall.state,
                        [integral |-> TRUE, value |-> supplyAprCall.borrowApr])]
  /\ UNCHANGED << requestVars, concurrentVars, mulVars, toolkitVars, envVars >>

SpecSupplyApr == InitSupplyApr /\ [][EvalSupplyApr]_vars

(***************************************************************************)
(* The env utilities: the .env file and process.env                        *)
(***************************************************************************)
\* A string is a sequence of characters here, so that splitting, trimming
\* and quoting act on it as the code does.
\* undefined where a string (a sequence of characters) is expected.
NoValue == << Undefined >>

IsWhitespace(c) == c \in { " ", "\t", "\n" }

\* String.prototype.trim.
RECURSIVE trimStart(_)
trimStart(s) ==
  IF s # << >> /\ IsWhitespace(Head(s)) THEN trimStart(Tail(s)) ELSE s

RECURSIVE trimEnd(_)
trimEnd(s) ==
  IF s # << >> /\ IsWhitespace(s[Len(s)])
    THEN trimEnd(SubSeq(s, 1, Len(s) - 1))
    ELSE s

trim(s) == trimEnd(trimStart(s))

startsWith(s, c) == s # << >> /\ Head(s) = c

endsWith(s, c) == s # << >> /\ s[Len(s)] = c

includes(s, c) == \E i \in DOMAIN s : s[i] = c

\* s.indexOf(c), counted from 1; 0 when c is not in s.
indexOf(s, c) ==
  IF includes(s, c) THEN CHOOSE i \in DOMAIN s :
                           s[i] = c /\ \A j \in 1..(i - 1) : s[j] # c
                    ELSE 0

\* content.split('\n').
RECURSIVE SplitFrom(_, _, _)
SplitFrom(s, i, line) ==
  IF i > Len(s)
    THEN << line >>
    ELSE IF s[i] = "\n"
           THEN << line >> \o SplitFrom(s, i + 1, << >>)
           ELSE SplitFrom(s, i + 1, Append(line, s[i]))

split(content) == SplitFrom(content, 1, << >>)

\* lines.join('\n').
RECURSIVE join(_)
join(lines) ==
  IF lines = << >> THEN << >>
  ELSE IF Len(lines) = 1 THEN lines[1]
  ELSE lines[1] \o << "\n" >> \o join(Tail(lines))

\* envMap.set(key, value) and envMap.delete(key).
MapSet(envMap, key, value) ==
  [k \in DOMAIN envMap \cup { key } |-> IF k = key THEN value ELSE envMap[k]]

MapDelete(envMap, key) == [k \in DOMAIN envMap \ { key } |-> envMap[k]]

\* The value of one line of the file: what follows the first '=', trimmed,
\* without one pair of surrounding quotes.
lineValue(trimmedLine, equalIndex) ==
  LET value == trim(SubSeq(trimmedLine, equalIndex + 1, Len(trimmedLine)))
  IN  IF \/ startsWith(value, "\"") /\ endsWith(value, "\"")
         \/ startsWith(value, "'") /\ endsWith(value, "'")
        THEN SubSeq(value, 2, Len(value) - 1)
        ELSE value

\* The loop of parseEnvContent from line i on: empty lines, comments and
\* lines without a key are skipped; a later line of a key replaces an
\* earlier one.
RECURSIVE parseLines(_, _, _)
parseLines(lines, i, envMap) ==
  IF i > Len(lines)
    THEN envMap
    ELSE LET trimmedLine == trim(lines[i])
             equalIndex == indexOf(trimmedLine, "=")
         IN  IF trimmedLine = << >> \/ startsWith(trimmedLine, "#")
               THEN parseLines(lines, i + 1, envMap)
               ELSE IF equalIndex > 1
                      THEN parseLines(lines, i + 1,
                             MapSet(envMap,
                                    trim(SubSeq(trimmedLine, 1, equalIndex - 1)),
                                    lineValue(trimmedLine, equalIndex)))
                      ELSE parseLines(lines, i + 1, envMap)

parseEnvContent(content) == parseLines(split(content), 1, << >>)

\* readEnvFile: the variables of the file; none when there is no file or
\* when reading it fails.
readEnvFile(file, readFails) ==
  IF ~file.exists THEN << >>
  ELSE IF readFails THEN << >>
  ELSE parseEnvContent(file.content)

\* preserveComments: the comment lines and the empty lines of the file, in
\* file order.
preserveComments(file, readFails) ==
  IF ~file.exists \/ readFails
    THEN << >>
    ELSE SelectSeq(split(file.content),
                   LAMBDA line : startsWith(trim(line), "#") \/ trim(line) = << >>)

\* The order of a[0].localeCompare(b[0]) on the keys of the model: by
\* character, punctuation before symbols before letters, a prefix first.
CollationRank(c) ==
  CASE c = " " -> 0 [] c = "'" -> 1 [] c = "\"" -> 2 [] c = "#" -> 3
    [] c = "=" -> 4 [] c = "K" -> 5 [] c = "N" -> 6 [] c = "O" -> 7
    [] OTHER -> 8

RECURSIVE localeCompare(_, _)
localeCompare(a, b) ==
  IF a = << >> THEN (IF b = << >> THEN 0 ELSE -1)
  ELSE IF b = << >> THEN 1
  ELSE IF CollationRank(Head(a)) < CollationRank(Head(b)) THEN -1
  ELSE IF CollationRank(Head(a)) > CollationRank(Head(b)) THEN 1
  ELSE localeCompare(Tail(a), Tail(b))

\* Array.from(envMap.entries()).sort(...): the keys in order.
RECURSIVE sortedEntries(_)
sortedEntries(keys) ==
  IF keys = {}
    THEN << >>
    ELSE LET first == CHOOSE k \in keys :
                        \A o \in keys : localeCompare(k, o) <= 0
         IN  << first >> \o sortedEntries(keys \ { first })

\* One line of the written file: key=value, the value in double quotes when
\* it holds a space or a '#'.
formattedLine(key, value) ==
  LET needsQuotes == includes(value, " ") \/ includes(value, "#")
      formattedValue == IF needsQuotes THEN << "\"" >> \o value \o << "\"" >>
                        ELSE value
  IN  key \o << "=" >> \o formattedValue

\* writeEnvFile: the content written for envMap over the file as it is: the
\* preserved comment and empty lines first, an empty line after them when
\* the last one is a comment, then the variables in key order.
writeEnvFile(envMap, file, readFails) ==
  LET comments == preserveComments(file, readFails)
      separator == IF comments # << >> /\ trim(comments[Len(comments)]) # << >>
                     THEN << << >> >> ELSE << >>
      keys == sortedEntries(DOMAIN envMap)
      entries == [i \in DOMAIN keys |-> formattedLine(keys[i], envMap[keys[i]])]
  IN  join(comments \o separator \o entries) \o << "\n" >>

\* getEnvVar(key) without a default: process.env[key] || undefined.
getEnvVar(env, key) ==
  IF key \in DOMAIN env /\ env[key] # << >> THEN env[key] ELSE NoValue

\* The .env files a call may find: none; an empty one; one with a comment
\* and the variables O=w and K="v v"; one whose variable O has the quoted
\* value 'w'.
EnvFiles ==
  { NoFile,
    [exists |-> TRUE, content |-> << >>],
    [exists |-> TRUE,
     content |-> << "#", " ", "c", "\n", "O", "=", "w", "\n",
                    "K", "=", "\"", "v", " ", "v", "\"", "\n" >>],
    [exists |-> TRUE,
     content |-> << "O", "=", "\"", "'", "w", "'", "\"", "\n" >>] }

\* process.env as the module finds it: nothing set, or K and O set.
ProcessEnvs ==
  { << >>,
    [k \in { << "K" >>, << "O" >> } |->
       IF k = << "K" >> THEN << "v", " ", "v" >> ELSE << "w" >>] }

\* The keys and values of the calls.
EnvKeys == { << >>, << "K" >>, << "N" >> }

EnvValues ==
  { NoValue, << >>, << "v" >>, << "a", " ", "b" >>, << "\"", "v", "\"" >> }

InitEnv ==
  /\ pc = "idle"
  /\ coinKey = "-"
  /\ supplierCapId = Undefined
  /\ inspect = TRUE
  /\ given = << >>
  /\ tx = << >>
  /\ inspectResult = NoResults
  /\ parsed = EmptyMap
  /\ formattedResult = EmptyMap
  /\ response = EmptyMap
  /\ result = EmptyMap
  /\ error = NoError
  /\ simCalls = 0
  /\ fetchCalls = 0
  /\ paramKey = "-"
  /\ curve = NoCurve
  /\ requests = NoRequests
  /\ onChain = FirstOnChain
  /\ mulCall = NoMulCall
  /\ toolkit = NoToolkit
  /\ account = NoAccount
  /\ initCalls = NoInitCalls
  /\ supplyAprCall = NoSupplyAprCall
  /\ envFile \in EnvFiles
  /\ processEnv \in ProcessEnvs
  /\ envCall = NoEnvCall

\* The record of a call: what it was given, what it found and how it ended.
EnvCallOf(op, key, value, outcome, err, warned, wrote) ==
  [op |-> op, key |-> key, value |-> value, outcome |-> outcome,
   error |-> err, warned |-> warned, wrote |-> wrote,
   fileBefore |-> envFile, envBefore |-> processEnv,
   calls |-> envCall.calls + 1]

\* setEnvVar(key, value); reading or writing the file may fail.
setEnvVar(key, value, readFails, writeFails) ==
  /\ envCall.calls < MaxEnvCalls
  /\ IF key = << >> \/ value = NoValue
       THEN /\ envCall' = EnvCallOf("setEnvVar", key, value, "threw",
                                    "Key and value are required", FALSE, FALSE)
            /\ UNCHANGED << envFile, processEnv >>
       ELSE LET envMap == MapSet(readEnvFile(envFile, readFails), key, value)
            IN  IF writeFails
                  THEN /\ envCall' = EnvCallOf("setEnvVar", key, value, "threw",
                                               "writeFileSync failed", FALSE, FALSE)
                       /\ UNCHANGED << envFile, processEnv >>
                  ELSE /\ envFile' = [exists |-> TRUE,
                                      content |-> writeEnvFile(envMap, envFile,
                                                               readFails)]
                       /\ processEnv' = MapSet(processEnv, key, value)
                       /\ envCall' = EnvCallOf("setEnvVar", key, value,
                                               "returned", NoError, FALSE, TRUE)
  /\ UNCHANGED << requestVars, concurrentVars, mulVars, toolkitVars,
                  supplyAprVars >>

\* deleteEnvVar(key); reading or writing the file may fail.
deleteEnvVar(key, readFails, writeFails) ==
  /\ envCall.calls < MaxEnvCalls
  /\ LET envMap == readEnvFile(envFile, readFails)
     IN  IF key \in DOMAIN envMap
           THEN IF writeFails
                  THEN /\ envCall' = EnvCallOf("deleteEnvVar", key, NoValue,
                                               "threw", "writeFileSync failed",
                                               FALSE, FALSE)
                       /\ UNCHANGED << envFile, processEnv >>
                  ELSE /\ envFile' = [exists |-> TRUE,
                                      content |-> writeEnvFile(
                                                    MapDelete(envMap, key),
                                                    envFile, readFails)]
                       /\ processEnv' = MapDelete(processEnv, key)
                       /\ envCall' = EnvCallOf("deleteEnvVar", key, NoValue,
                                               "returned", NoError, FALSE, TRUE)
           ELSE /\ envCall' = EnvCallOf("deleteEnvVar", key, NoValue,
                                        "returned", NoError, TRUE, FALSE)
                /\ UNCHANGED << envFile, processEnv >>
  /\ UNCHANGED << requestVars, concurrentVars, mulVars, toolkitVars,
                  supplyAprVars >>

NextEnv ==
  \/ \E key \in EnvKeys, value \in EnvValues, readFails, writeFails \in BOOLEAN :
        setEnvVar(key, value, readFails, writeFails)
  \/ \E key \in EnvKeys, readFails, writeFails \in BOOLEAN :
        deleteEnvVar(key, readFails, writeFails)

SpecEnv == InitEnv /\ [][NextEnv]_vars

(***************************************************************************)
(* Properties                                                              *)
(***************************************************************************)
\* The keys of the read calls in the batch.
BatchKeys == { tx[i].fn : i \in DOMAIN tx } \ { "other" }

\* The well-formed pool objects.
WellFormedObjects ==
  { PoolObject(ic, mc, st) :
      ic \in InterestConfigs, mc \in MarginPoolConfigs, st \in PoolStates }

\* A request with inspect on that resolved with a bundle.
Resolved == pc = "returned" /\ inspect

\* The 1e9-scaled integer of a normalized value.
Scaled(x) == x.num * (FLOAT_SCALAR \div x.den)

\* C1 -- Ordering invariant: when getPoolParameters builds a fresh batch,
\* simulates it and decodes the results, every decoded key holds the return
\* value of the read call added to the batch for that key, and when every
\* call returned data the decoded keys are exactly the keys of the calls in
\* the batch (with and without a supplier cap).
C1_OrderingInvariant ==
  (given = << >> /\ inspectResult.hasResults) =>
     /\ \A k \in DOMAIN parsed :
          \E i \in DOMAIN tx :
             /\ tx[i].fn = k
             /\ inspectResult.results[i].present
             /\ inspectResult.results[i].bytes = EncodeU64(parsed[k])
     /\ (\A i \in DOMAIN tx : inspectResult.results[i].present)
          => DOMAIN parsed = BatchKeys

C1_Witness ==
  /\ given = << >>
  /\ supplierCapId = "0xcap"
  /\ inspectResult.hasResults
  /\ \A i \in DOMAIN tx : inspectResult.results[i].present
  /\ DOMAIN parsed = Range(AllKeys)
  /\ parsed["interestRate"] = 132349692
  /\ parsed["userSupplyAmount"] = 1500000000

\* C2 -- Missing-credential fail-fast: #addParamCall for a credential-gated
\* key without a supplier cap throws "supplierCap is required for '<key>'."
\* and adds no call; nothing has been simulated or fetched.
C2_MissingCredentialFailsFast ==
  (pc # "idle" /\ paramKey \in {"userSupplyShares", "userSupplyAmount"}
     /\ supplierCapId = Undefined) =>
     /\ pc = "failed"
     /\ error = "supplierCap is required for '" \o paramKey \o "'."
     /\ tx = given
     /\ simCalls = 0
     /\ fetchCalls = 0

C2_Witness ==
  /\ pc = "failed"
  /\ paramKey = "userSupplyShares"
  /\ supplierCapId = Undefined
  /\ error = "supplierCap is required for 'userSupplyShares'."
  /\ Len(given) = 1
  /\ tx = given

\* C3 -- Zero-utilization edge case (as claimed): for a pool object with
\* total_supply = 0 the request completes with utilizationRate = 0 and
\* supplyApr = 0.
C3_ZeroSupplyYieldsZero ==
  (pc \in {"returned", "failed"} /\ response \in WellFormedObjects
     /\ response.data.state.total_supply = 0) =>
     /\ pc = "returned"
     /\ result["utilizationRate"] = Zero
     /\ result["supplyApr"] = Zero

\* C4 -- Batch construction: getPoolParameters appends one read call per
\* base key in registry order and then, iff a supplier cap ID is supplied
\* (a non-empty string), one read call per credential key in registry
\* order; the calls already in the batch keep their positions and nothing
\* else is added.
C4_BatchConstruction ==
  pc # "idle" =>
    tx = given
         \o [i \in 1..10 |->
               [fn |-> << "supplyCap", "maxUtilizationRate", "protocolSpread",
                          "minBorrow", "interestRate", "totalSupply",
                          "supplyShares", "totalBorrow", "borrowShares",
                          "lastUpdateTimestamp" >>[i],
                coin |-> coinKey, cap |-> Undefined]]
         \o (IF supplierCapId \notin {Undefined, ""}
               THEN << [fn |-> "userSupplyShares", coin |-> coinKey,
                        cap |-> supplierCapId],
                       [fn |-> "userSupplyAmount", coin |-> coinKey,
                        cap |-> supplierCapId] >>
               ELSE << >>)

C4_Witness ==
  /\ pc = "returned"
  /\ ~inspect
  /\ Len(given) = 1
  /\ supplierCapId = "0xcap"
  /\ Len(tx) = 13
  /\ tx[1] = OtherCall
  /\ tx[12].fn = "userSupplyShares"
  /\ tx[13].fn = "userSupplyAmount"

\* C5 -- Borrow-rate curve: computeBorrowAprAtUtil(U) is
\* baseRate + mul(U, baseSlope) for U < optimalUtilization and
\* baseRate + mul(optimalUtilization, baseSlope)
\*          + mul(U - optimalUtilization, excessSlope) otherwise.
CurveAsSpecified(U, cfg) ==
  IF U < cfg.optimal_utilization
    THEN cfg.base_rate + mul(U, cfg.base_slope)
    ELSE cfg.base_rate + mul(cfg.optimal_utilization, cfg.base_slope)
           + mul(U - cfg.optimal_utilization, cfg.excess_slope)

C5_BorrowRateCurve ==
  curve.evaluated =>
     /\ curve.r1 = CurveAsSpecified(curve.u1, curve.cfg)
     /\ curve.r2 = CurveAsSpecified(curve.u2, curve.cfg)

C5_Witness ==
  /\ curve.evaluated
  /\ curve.cfg = [base_rate |-> 1, base_slope |-> 333333333,
                  excess_slope |-> 999999999, optimal_utilization |-> 800000000]
  /\ curve.u1 = 500000000
  /\ curve.r1 = 166666667
  /\ curve.u2 = 999999999
  /\ curve.r2 = 466666665

\* C6 -- Supply APR: supplyApr = mul(mul(currentBorrowAprScaled,
\* utilizationRate), S - protocol_spread), where currentBorrowAprScaled is
\* the decoded interest rate (0 if it was not decoded) and utilizationRate
\* is total_borrow / total_supply to 9 fractional digits.
C6_SupplyApr ==
  Resolved =>
    LET st == response.data.state
        mc == response.data.config.margin_pool_config
        rate == IF "interestRate" \in DOMAIN parsed
                  THEN parsed["interestRate"] ELSE 0
        util == Scaled(result["utilizationRate"])
    IN  /\ MulDivScalar(util, st.total_supply)
             \in { st.total_borrow - 1, st.total_borrow }
        /\ result["supplyApr"]
             = normalize(mul(mul(rate, util), FLOAT_SCALAR - mc.protocol_spread))

C6_Witness ==
  /\ Resolved
  /\ "interestRate" \in DOMAIN parsed
  /\ parsed["interestRate"] = 50000000
  /\ response.data.state = [total_supply |-> 1000000000, total_borrow |-> 500000000]
  /\ response.data.config.margin_pool_config.protocol_spread = 100000000
  /\ result["utilizationRate"] = [num |-> 1, den |-> 2]
  /\ Scaled(result["supplyApr"]) = 22500000

\* C7 -- Monotonicity: for a fixed configuration with non-negative base
\* rate and slopes, borrowAPR(U1) <= borrowAPR(U2) whenever U1 <= U2, also
\* across the kink and despite the truncation inside mul.
C7_Monotonicity ==
  (curve.evaluated /\ curve.u1 <= curve.u2) => curve.r1 <= curve.r2

C7_Witness ==
  /\ curve.evaluated
  /\ curve.u1 < curve.cfg.optimal_utilization
  /\ curve.cfg.optimal_utilization < curve.u2
  /\ curve.cfg.base_slope = 3
  /\ curve.cfg.excess_slope = 7
  /\ curve.r1 < curve.r2

\* C8 -- Kink continuity: at U = optimalUtilization the branch the code
\* takes gives the value of the below-kink formula baseRate + mul(U, baseSlope).
C8_KinkContinuity ==
  (curve.evaluated /\ curve.u1 = curve.cfg.optimal_utilization) =>
     curve.r1 = curve.cfg.base_rate + mul(curve.u1, curve.cfg.base_slope)

C8_Witness ==
  /\ curve.evaluated
  /\ curve.u1 = 333333333
  /\ curve.cfg.optimal_utilization = 333333333
  /\ curve.cfg.base_slope = 333333333
  /\ curve.cfg.excess_slope = 999999999
  /\ curve.r1 = curve.cfg.base_rate + 111111110

ReadFieldsPresent(resp) ==
  /\ Has(resp, "data")
  /\ Has(resp.data, "config")
  /\ Has(resp.data, "state")
  /\ Has(resp.data.config, "interest_config")
  /\ Has(resp.data.config, "margin_pool_config")
  /\ \A f \in {"base_rate", "base_slope", "excess_slope", "optimal_utilization"} :
        Has(resp.data.config.interest_config, f)
  /\ \A f \in {"max_utilization_rate", "protocol_spread"} :
        Has(resp.data.config.margin_pool_config, f)
  /\ \A f \in {"total_supply", "total_borrow"} : Has(resp.data.state, f)

\* Every field of the expected structure, min_borrow and supply_cap included.
ExpectedFieldsPresent(resp) ==
  /\ ReadFieldsPresent(resp)
  /\ \A f \in {"min_borrow", "supply_cap"} :
        Has(resp.data.config.margin_pool_config, f)

\* C10 (as claimed) -- All-or-nothing failure: a request never resolves with
\* a bundle when the fetched object lacks any expected field.
C10_FailsOnAnyMissingField ==
  Resolved => ExpectedFieldsPresent(response)

\* C10 (amended) -- All-or-nothing failure: if the pool object fetch fails,
\* or the fetched object lacks config.interest_config,
\* config.margin_pool_config or state, or one of the fields the curve engine
\* reads, the request fails as a whole: the caller gets an error and no
\* bundle.
C10_AllOrNothing ==
  /\ Resolved => ReadFieldsPresent(response)
  /\ pc = "failed" => (result = EmptyMap /\ error # NoError)
  /\ error = "getObject failed" => pc = "failed"
  /\ (pc \in {"returned", "failed"} /\ fetchCalls = 1
        /\ ~ReadFieldsPresent(response)) => pc = "failed"

C10_Witness ==
  /\ pc = "failed"
  /\ fetchCalls = 1
  /\ Has(response, "data")
  /\ ~Has(response.data, "state")
  /\ error = "TypeError"
  /\ result = EmptyMap

\* The simulation of the request has resolved (its results were decoded).
Decoded == fetchCalls = 1

\* C11 -- Result decoder: keys[i] is in the decoded map if and only if
\* return bytes are present at position i of the simulation results; an
\* absent entry (or a result list shorter than the key list, or no result
\* list at all) leaves its key out and raises no error, so the decoded keys
\* are a subset of the key list.
C11_DecoderAbsentEntries ==
  Decoded =>
     /\ \A i \in DOMAIN AllKeys :
          (AllKeys[i] \in DOMAIN parsed)
            <=> /\ inspectResult.hasResults
                /\ i <= Len(inspectResult.results)
                /\ inspectResult.results[i].present
     /\ DOMAIN parsed \subseteq Range(AllKeys)
     /\ pc = "awaitObject" => error = NoError

C11_Witness ==
  /\ pc = "awaitObject"
  /\ error = NoError
  /\ given = << >>
  /\ supplierCapId = "0xcap"
  /\ inspectResult.hasResults
  /\ ~inspectResult.results[5].present
  /\ DOMAIN parsed = Range(AllKeys) \ { "interestRate" }
  /\ parsed["userSupplyAmount"] = 1500000000

\* C12 -- Bundle totality: for every decoded map (the empty map and maps
\* without the credential keys included) the bundle built by #formatResult,
\* and the bundle getPoolParameters resolves with, hold every base key and
\* every credential key, with value 0 for each key the decoded map lacks.
C12_BundleTotality ==
  /\ Decoded =>
       \A k \in Range(AllKeys) :
          /\ k \in DOMAIN formattedResult
          /\ k \notin DOMAIN parsed => formattedResult[k] = Zero
  /\ Resolved =>
       \A k \in Range(AllKeys) :
          /\ k \in DOMAIN result
          /\ k \notin DOMAIN parsed => result[k] = Zero

C12_Witness ==
  /\ Resolved
  /\ ~inspectResult.hasResults
  /\ parsed = EmptyMap
  /\ Range(AllKeys) \subseteq DOMAIN result
  /\ \A k \in Range(AllKeys) : result[k] = Zero

\* The one divisor the classification rule gives a key for a coin.
DivisorOf(k, c) ==
  IF k = "lastUpdateTimestamp" THEN 1
  ELSE IF k \in { "interestRate", "maxUtilizationRate", "protocolSpread" }
    THEN 1000000000
  ELSE IF c = "SUI" THEN 1000000000 ELSE 1000000

\* C13 -- Unit formatter classification: every decoded raw integer is
\* divided by the one divisor its key selects (1 for lastUpdateTimestamp,
\* 10^9 for interestRate / maxUtilizationRate / protocolSpread, the coin's
\* scalar for every other key); with scalar 10^9 the raw amount 1500000000
\* formats to 1.5 and a rate key with raw value 10^9 formats to 1.
C13_FormatterClassification ==
  Decoded =>
     \A k \in DOMAIN parsed :
        LET d == DivisorOf(k, coinKey)
            v == formattedResult[k]
        IN  /\ v = Num(parsed[k], d)
            /\ (k = "userSupplyAmount" /\ coinKey = "SUI" /\ parsed[k] = 1500000000)
                 => v = [num |-> 3, den |-> 2]
            /\ (k = "maxUtilizationRate" /\ parsed[k] = 1000000000)
                 => v = [num |-> 1, den |-> 1]

C13_Witness ==
  /\ Decoded
  /\ coinKey = "SUI"
  /\ { "lastUpdateTimestamp", "protocolSpread", "userSupplyAmount" }
       \subseteq DOMAIN parsed
  /\ parsed["userSupplyAmount"] = 1500000000
  /\ formattedResult["userSupplyAmount"] = [num |-> 3, den |-> 2]
  /\ parsed["protocolSpread"] = 100000000
  /\ formattedResult["protocolSpread"] = [num |-> 1, den |-> 10]
  /\ parsed["lastUpdateTimestamp"] = 1700000000
  /\ formattedResult["lastUpdateTimestamp"] = [num |-> 1700000000, den |-> 1]

\* C14 (as claimed) -- The scaled borrow APR fed into the supply-APR
\* derivation is the raw decoded interestRate integer (0 when it was not
\* decoded), so a request whose pool object is complete, with a non-zero
\* total supply, resolves whatever the decoded interest rate is -- also when
\* the formatted interestRate times the scale is not an exact integer.
C14_BorrowAprIsRawInteger ==
  (pc \in {"returned", "failed"} /\ fetchCalls = 1
     /\ ReadFieldsPresent(response)
     /\ response.data.state.total_supply # 0) =>
     /\ pc = "returned"
     /\ result["supplyApr"]
          = normalize(mul(mul(IF "interestRate" \in DOMAIN parsed
                                THEN parsed["interestRate"] ELSE 0,
                              Scaled(result["utilizationRate"])),
                          FLOAT_SCALAR
                            - response.data.config.margin_pool_config.protocol_spread))

\* The pool object of the end-to-end example.
ExampleObject ==
  [data |->
     [config |->
        [interest_config |->
           [base_rate |-> 100000000, base_slope |-> 0, excess_slope |-> 0,
            optimal_utilization |-> 800000000],
         margin_pool_config |->
           [max_utilization_rate |-> 1000000000, min_borrow |-> 0,
            protocol_spread |-> 0, supply_cap |-> 0]],
      state |-> [total_supply |-> 1000000000, total_borrow |-> 500000000]]]

\* The request of the example has completed: the example's pool object was
\* fetched and the decoded interest rate is 100000000 (0.1).
ExampleCompleted ==
  /\ pc \in {"returned", "failed"}
  /\ inspect
  /\ response = ExampleObject
  /\ "interestRate" \in DOMAIN parsed
  /\ parsed["interestRate"] = 100000000

\* C15 -- End-to-end example: with base_rate 100000000, slopes 0,
\* optimal_utilization 800000000, max_utilization_rate 1000000000,
\* protocol_spread 0, total_supply 1000000000, total_borrow 500000000 and a
\* current borrow APR of 0.1, the request resolves with utilizationRate 0.5,
\* baseBorrowApr 0.1, borrowAprOnHighKink 0.1, maxBorrowApr 0.1 and
\* supplyApr 0.05.
C15_EndToEndExample ==
  ExampleCompleted =>
     /\ pc = "returned"
     /\ result["utilizationRate"] = [num |-> 1, den |-> 2]
     /\ result["baseBorrowApr"] = [num |-> 1, den |-> 10]
     /\ result["borrowAprOnHighKink"] = [num |-> 1, den |-> 10]
     /\ result["maxBorrowApr"] = [num |-> 1, den |-> 10]
     /\ result["supplyApr"] = [num |-> 1, den |-> 20]
     /\ result["highKink"] = [num |-> 4, den |-> 5]

C15_Witness ==
  /\ ExampleCompleted
  /\ pc = "returned"
  /\ Scaled(result["utilizationRate"]) = 500000000
  /\ Scaled(result["baseBorrowApr"]) = 100000000
  /\ Scaled(result["borrowAprOnHighKink"]) = 100000000
  /\ Scaled(result["maxBorrowApr"]) = 100000000
  /\ Scaled(result["supplyApr"]) = 50000000

\* C16 -- No retry, single round trips: a request with inspect on issues
\* exactly one simulation call and at most one pool-object fetch (exactly
\* one when it resolves); a failed simulation or fetch is not issued again
\* and reaches the caller as an error, with no bundle.
C16_NoRetrySingleRoundTrips ==
  (pc # "idle" /\ inspect) =>
     /\ simCalls = 1
     /\ fetchCalls \in {0, 1}
     /\ pc = "awaitSimulation" => fetchCalls = 0
     /\ pc \in {"awaitObject", "returned"} => fetchCalls = 1
     /\ pc = "failed" => (error # NoError /\ result = EmptyMap)
     /\ error = "devInspectTransactionBlock failed"
          => (pc = "failed" /\ fetchCalls = 0)
     /\ error = "getObject failed" => (pc = "failed" /\ fetchCalls = 1)
     /\ error # NoError => pc = "failed"

C16_Witness ==
  /\ pc = "failed"
  /\ inspect
  /\ error = "getObject failed"
  /\ simCalls = 1
  /\ fetchCalls = 1
  /\ inspectResult.hasResults
  /\ result = EmptyMap

\* C17 -- Build-only mode: getPoolParameters with inspect = false returns
\* the Transaction it was given, with the parameter read calls appended
\* after the calls that were already in it, and issues no simulation and no
\* pool-object fetch.
C17_BuildOnlyMode ==
  (pc # "idle" /\ ~inspect) =>
     /\ pc = "returned"
     /\ error = NoError
     /\ simCalls = 0
     /\ fetchCalls = 0
     /\ result = EmptyMap
     /\ Len(tx) = Len(given) + (IF supplierCapId \in {Undefined, ""} THEN 10 ELSE 12)
     /\ SubSeq(tx, 1, Len(given)) = given
     /\ \A i \in (Len(given) + 1)..Len(tx) :
          /\ tx[i].fn = AllKeys[i - Len(given)]
          /\ tx[i].coin = coinKey

C17_Witness ==
  /\ pc = "returned"
  /\ ~inspect
  /\ given = << OtherCall >>
  /\ supplierCapId = Undefined
  /\ Len(tx) = 11
  /\ tx[1] = OtherCall
  /\ tx[11].fn = "lastUpdateTimestamp"
  /\ simCalls = 0
  /\ fetchCalls = 0

\* What one request returns when it runs alone: the bundle (or the error)
\* for its arguments, the simulation results res and the pool object resp.
RunAlone(c, res, resp) ==
  LET decoded == parseInspectResultToBcsStructs(res, AllKeys)
      formatted == formatResult(decoded, c)
      interestData ==
        interestConfigOfResponse(resp, timesFloatScalar(formatted["interestRate"]))
  IN  IF interestData.error # NoError
        THEN [result |-> EmptyMap, error |-> interestData.error]
        ELSE [result |-> interestData.normalized @@ formatted, error |-> NoError]

\* Request r has completed after its object fetch resolved.
CompletedAfterFetch(r) ==
  /\ requests[r].pc \in {"returned", "failed"}
  /\ requests[r].response # EmptyMap

\* C18 -- Request independence: in every interleaving of two requests on
\* one instance (each with a batch of its own) a request's outcome is what
\* it returns when run alone against the collaborator responses it got, a
\* step of one request changes nothing of the other, and the pool object a
\* request computes with is the one the chain holds when its fetch resolves
\* (no cache), so a pool changed between two requests shows in the second
\* bundle.
C18_RequestIndependence ==
  /\ [](\A r \in RequestIds :
          CompletedAfterFetch(r) =>
             LET alone == RunAlone(requests[r].coinKey, requests[r].inspectResult,
                                   requests[r].response)
             IN  /\ requests[r].result = alone.result
                 /\ requests[r].error = alone.error)
  /\ [][\A r \in RequestIds :
          /\ requests'[r] # requests[r] =>
               \A q \in RequestIds \ {r} : requests'[q] = requests[q]
          /\ (requests[r].pc = "awaitObject" /\ requests'[r].response # EmptyMap)
               => requests'[r].response = onChain.object
          /\ (requests[r].pc = "awaitSimulation" /\ requests'[r].pc = "awaitObject")
               => requests'[r].inspectResult
                    = Simulate(requests[r].tx, onChain.chain, {})]_vars

\* The second request ran entirely between the simulation and the fetch of
\* the first, and the pool changed in between: the first bundle shows the
\* changed pool (utilization 1), the second the pool as it was (1/2).
C18_Witness ==
  /\ requests["first"].pc = "returned"
  /\ requests["second"].pc = "returned"
  /\ requests["first"].coinKey = "SUI"
  /\ requests["second"].coinKey = "DBUSDC"
  /\ requests["first"].supplierCapId = "0xcap"
  /\ requests["second"].supplierCapId = Undefined
  /\ requests["first"].parsed["interestRate"] = 100000000
  /\ requests["second"].parsed["interestRate"] = 100000000
  /\ requests["first"].response.data.state.total_borrow = 1000000000
  /\ requests["second"].response.data.state.total_borrow = 500000000
  /\ requests["first"].result["utilizationRate"] = [num |-> 1, den |-> 1]
  /\ requests["second"].result["utilizationRate"] = [num |-> 1, den |-> 2]
  /\ requests["first"].result["userSupplyAmount"] = Zero
  /\ requests["second"].result["supplyCap"] = [num |-> 1, den |-> 1]

\* The value of a bigint modulo m, for m below 46341 (Horner's rule).
RECURSIVE ModFrom(_, _, _, _)
ModFrom(s, i, acc, m) ==
  IF i = 0 THEN acc ELSE ModFrom(s, i - 1, (acc * 1000 + s[i]) % m, m)

BigMod(s, m) == ModFrom(s, Len(s), 0, m)

\* Pairwise coprime moduli (primes) whose product exceeds 10^42, more than
\* any value of fourteen digits: two such values that agree modulo every
\* one of them are equal.
Moduli == { 46337, 46327, 46309, 46307, 46301, 46279, 46273, 46271, 46261, 46237 }

\* The remainders r below 10^9 with q * 10^9 + r = a * b: the candidates are
\* found modulo the first two primes (whose product exceeds 10^9) and kept
\* if they agree modulo all of them.
Remainders(a, b, q) ==
  LET ab(m) == (BigMod(a, m) * BigMod(b, m)) % m
      qS(m) == (BigMod(q, m) * (FLOAT_SCALAR % m)) % m
      diff(m) == (ab(m) + m - qS(m)) % m
      d1 == diff(46337)
      d2 == diff(46327)
      candidates == { d1 + k * 46337 : k \in 0..(FLOAT_SCALAR \div 46337) }
  IN  { r \in candidates :
          /\ r < FLOAT_SCALAR
          /\ r % 46327 = d2
          /\ \A m \in Moduli : r % m = diff(m) }

\* The value of a bigint that fits a TLC integer.
RECURSIVE BigValue(_)
BigValue(s) == IF s = << >> THEN 0 ELSE s[1] + 1000 * BigValue(Tail(s))

\* Operands up to 10^9 + 1.
SmallOperand(s) == Len(s) <= 3 \/ s = << 0, 0, 0, 1 >> \/ s = << 1, 0, 0, 1 >>

\* C19 -- Scaled multiply: for non-negative 64-bit a and b, mul(a, b) is
\* floor(a * b / 10^9), with the product computed exactly (a * b may need
\* 128 bits): there is a remainder 0 <= r < 10^9 with mul(a, b) * 10^9 + r
\* = a * b.  mul(10^9, x) = mul(x, 10^9) = x and mul(0, x) = mul(x, 0) = 0;
\* on operands that fit a TLC integer the integer form of mul used by the
\* curve engine gives the same value.
C19_ScaledMultiplyExact ==
  mulCall.evaluated =>
    LET a == mulCall.a
        b == mulCall.b
        q == mulCall.result
    IN  /\ \A i \in DOMAIN q : q[i] \in 0..999
        /\ q = StripZeros(q)
        /\ Len(q) <= 11
        /\ Remainders(a, b, q) # {}
        /\ a = << 0, 0, 0, 1 >> => q = b
        /\ b = << 0, 0, 0, 1 >> => q = a
        /\ (a = << >> \/ b = << >>) => q = << >>
        /\ (SmallOperand(a) /\ SmallOperand(b))
             => mul(BigValue(a), BigValue(b)) = BigValue(q)

\* (2^64 - 1)^2 / 10^9 = 340282366920938463426481119284 (rounded down).
C19_Witness ==
  /\ mulCall.evaluated
  /\ mulCall.a = << 615, 551, 709, 73, 744, 446, 18 >>
  /\ mulCall.b = << 615, 551, 709, 73, 744, 446, 18 >>
  /\ mulCall.result = << 284, 119, 481, 426, 463, 938, 920, 366, 282, 340 >>

\* C20 -- Uninitialized guard: supplyToMarginPool, withdrawFromMarginPool
\* and getBalance, called while the toolkit has no Supplier Cap ID (none
\* given, or an empty one), fail with an error that contains "Supplier Cap
\* not initialized. Call initialize() first.", and send no transaction and
\* no simulation; a failed operation sends nothing afterwards either.
C20_UninitializedGuard ==
  [][ /\ ( /\ toolkit'.calls = toolkit.calls + 1
           /\ toolkit'.op \in { "supplyToMarginPool", "withdrawFromMarginPool",
                                "getBalance" }
           /\ toolkit.supplierCapId \in { Undefined, "" } )
        => /\ toolkit'.pc = "failed"
           /\ \E prefix \in { "Failed to supply to margin pool: ",
                              "Failed to withdraw from margin pool: ",
                              "Failed to get balance: " } :
                toolkit'.error
                  = prefix \o "Supplier Cap not initialized. Call initialize() first."
           /\ toolkit'.executed = toolkit.executed
           /\ toolkit'.simulated = toolkit.simulated
           /\ toolkit'.balanceCalls = toolkit.balanceCalls
           /\ toolkit'.supplierCapId = toolkit.supplierCapId
      /\ (toolkit.pc = "failed" /\ toolkit'.calls = toolkit.calls)
        => toolkit' = toolkit ]_vars

C20_Witness ==
  /\ toolkit.supplierCapId = ""
  /\ toolkit.calls = 2
  /\ toolkit.op = "getBalance"
  /\ toolkit.pc = "failed"
  /\ toolkit.error
       = "Failed to get balance: Supplier Cap not initialized. Call initialize() first."
  /\ toolkit.executed = 0
  /\ toolkit.simulated = 0
  /\ toolkit.balanceCalls = 0

\* The position of the read call of key k in the batch of the request (the
\* read calls sit after the calls the caller handed in).
ReadCallPosition(k) ==
  CHOOSE i \in DOMAIN tx :
    /\ i > Len(given)
    /\ tx[i].fn = k

\* C24 (as claimed) -- Composed batch decoding: when the caller's batch
\* already holds k >= 1 unrelated calls, every decoded parameter key has the
\* value its own read call returned, not the value of the call that sits at
\* the key's index of the simulation results.
C24_ComposedBatchDecoding ==
  (Decoded /\ Len(given) >= 1 /\ inspectResult.hasResults) =>
     \A k \in DOMAIN parsed :
        /\ inspectResult.results[ReadCallPosition(k)].present
        /\ parsed[k] = bcsU64Parse(inspectResult.results[ReadCallPosition(k)].bytes)

\* C28 -- Pipeline ordering: while the simulation is pending no pool-object
\* fetch has been issued; the step that issues the fetch is the step in
\* which the simulation returns, and it leaves the simulation results
\* decoded and formatted; a failing simulation issues no fetch and its error
\* reaches the caller.
C28_PipelineOrdering ==
  /\ [](pc = "awaitSimulation" => fetchCalls = 0)
  /\ [][ /\ fetchCalls' # fetchCalls =>
              /\ pc = "awaitSimulation"
              /\ pc' = "awaitObject"
              /\ fetchCalls' = fetchCalls + 1
              /\ parsed' = parseInspectResultToBcsStructs(inspectResult', AllKeys)
              /\ formattedResult' = formatResult(parsed', coinKey)
         /\ (pc = "awaitSimulation" /\ pc' = "failed") =>
              /\ fetchCalls' = 0
              /\ error' = "devInspectTransactionBlock failed"
              /\ result' = EmptyMap ]_vars

C28_Witness ==
  /\ pc = "awaitObject"
  /\ simCalls = 1
  /\ fetchCalls = 1
  /\ coinKey = "DBUSDC"
  /\ inspectResult.hasResults
  /\ \A i \in DOMAIN inspectResult.results : inspectResult.results[i].present
  /\ parsed["supplyCap"] = 5000000
  /\ formattedResult["supplyCap"] = [num |-> 5, den |-> 1]

\* C30 -- Supply APR bounds: with a utilization rate in [0, 10^9], a
\* protocol spread in [0, 10^9] and a non-negative current borrow APR, the
\* scaled supplyApr is non-negative and at most the current borrow APR.
C30_SupplyAprBounds ==
  (/\ supplyAprCall.evaluated
   /\ supplyAprCall.raw.utilizationRate >= 0
   /\ supplyAprCall.raw.utilizationRate <= FLOAT_SCALAR
   /\ supplyAprCall.protocol_spread >= 0
   /\ supplyAprCall.protocol_spread <= FLOAT_SCALAR
   /\ supplyAprCall.borrowApr >= 0) =>
     /\ supplyAprCall.raw.supplyApr >= 0
     /\ supplyAprCall.raw.supplyApr <= supplyAprCall.borrowApr

C30_Witness ==
  /\ supplyAprCall.evaluated
  /\ supplyAprCall.borrowApr = 1000000000
  /\ supplyAprCall.protocol_spread = 1
  /\ supplyAprCall.raw.utilizationRate = 999999999
  /\ supplyAprCall.raw.supplyApr = 999999998

\* The variables of the .env file as readEnvFile reads them.
FileVars(file) == IF file.exists THEN parseEnvContent(file.content) ELSE << >>

\* C22 (as claimed) -- setEnvVar(key, value) with a non-empty key makes the
\* .env file and process.env map key to value, so that getEnvVar(key)
\* returns value, and every other variable of the file keeps its value; with
\* an empty key it throws 'Key and value are required' and changes neither
\* the file nor process.env.
C22_SetEnvVar ==
  (envCall.op = "setEnvVar" /\ envCall.value # NoValue) =>
     IF envCall.key = << >>
       THEN /\ envCall.outcome = "threw"
            /\ envCall.error = "Key and value are required"
            /\ envFile = envCall.fileBefore
            /\ processEnv = envCall.envBefore
       ELSE envCall.outcome = "returned" =>
              /\ envCall.key \in DOMAIN FileVars(envFile)
              /\ FileVars(envFile)[envCall.key] = envCall.value
              /\ envCall.key \in DOMAIN processEnv
              /\ processEnv[envCall.key] = envCall.value
              /\ getEnvVar(processEnv, envCall.key) = envCall.value
              /\ \A k \in DOMAIN FileVars(envCall.fileBefore) \ { envCall.key } :
                   /\ k \in DOMAIN FileVars(envFile)
                   /\ FileVars(envFile)[k] = FileVars(envCall.fileBefore)[k]

\* C23 (as claimed) -- After deleteEnvVar(key) has returned, key is set
\* neither in the .env file nor in process.env and no other variable has
\* changed; when key was not in the file the call only warns and does not
\* write the file.
C23_DeleteEnvVar ==
  (envCall.op = "deleteEnvVar" /\ envCall.outcome = "returned") =>
     /\ envCall.key \notin DOMAIN FileVars(envFile)
     /\ envCall.key \notin DOMAIN processEnv
     /\ \A k \in DOMAIN FileVars(envCall.fileBefore) \ { envCall.key } :
          /\ k \in DOMAIN FileVars(envFile)
          /\ FileVars(envFile)[k] = FileVars(envCall.fileBefore)[k]
     /\ \A k \in DOMAIN envCall.envBefore \ { envCall.key } :
          /\ k \in DOMAIN processEnv
          /\ processEnv[k] = envCall.envBefore[k]
     /\ envCall.key \notin DOMAIN FileVars(envCall.fileBefore) =>
          /\ envCall.warned
          /\ ~envCall.wrote
          /\ envFile = envCall.fileBefore

\* The operations that return a success status.
StatusOps == { "supplyToMarginPool", "withdrawFromMarginPool", "withdrawReferralFees" }

\* C21 -- Success/failure propagation: supplyToMarginPool,
\* withdrawFromMarginPool and withdrawReferralFees return true, and only
\* when the effects of the executed transaction report success; a failed
\* transaction and a rejected client call make them throw an error that
\* carries the reason; they never return false.
C21_SuccessFailurePropagation ==
  toolkit.op \in StatusOps =>
     /\ toolkit.pc = "returned" =>
          /\ toolkit.returned = TRUE
          /\ toolkit.effects.success
          /\ toolkit.error = NoError
     /\ (toolkit.effects # NoEffects /\ ~toolkit.effects.success) =>
          /\ toolkit.pc = "failed"
          /\ toolkit.returned = "-"
          /\ toolkit.error
               = ErrorPrefix(toolkit.op) \o "Transaction failed: "
                   \o (IF toolkit.effects.error = "" THEN "Unknown error"
                       ELSE toolkit.effects.error)
     /\ toolkit.pc = "failed" =>
          /\ toolkit.returned = "-"
          /\ toolkit.error
               \in { ErrorPrefix(toolkit.op) \o reason :
                       reason \in { NotInitialized, "client error",
                                    "Transaction failed: MoveAbort",
                                    "Transaction failed: Unknown error" } }

C21_Witness ==
  /\ toolkit.op = "withdrawReferralFees"
  /\ toolkit.supplierCapId = Undefined
  /\ toolkit.pc = "failed"
  /\ toolkit.executed = 1
  /\ toolkit.effects = [success |-> FALSE, error |-> "MoveAbort"]
  /\ toolkit.error = "Failed to withdraw referral fees: Transaction failed: MoveAbort"

C29_StoredCapIdStable ==
  [][ Truthy(toolkit.supplierCapId)
        => toolkit'.supplierCapId = toolkit.supplierCapId ]_vars

C29_Witness ==
  /\ toolkit.supplierCapId = "0xowned"
  /\ toolkit.initializeReturned = "0xowned"
  /\ toolkit.calls = 2
  /\ toolkit.op = "createSupplierCap"
  /\ toolkit.pc = "returned"
  /\ toolkit.returned = "0xminted1"
  /\ account.supplierCaps = << "0xowned", "0xminted1" >>

\* The run began with no Supplier Cap ID configured and no SupplierCap owned
\* by the address: the stored ID is not the configured one and every owned
\* cap was minted during the run.
StartedBare ==
  /\ toolkit.supplierCapId # "0xcap"
  /\ \A n \in DOMAIN account.supplierCaps : account.supplierCaps[n] # "0xowned"

\* C27 (as claimed) -- Two overlapping initialize() calls on one instance,
\* begun with no Supplier Cap configured and none owned: in every
\* interleaving at most one Supplier Cap is minted and both calls return the
\* same ID.
C27_OverlappingInitialize ==
  StartedBare =>
     /\ account.minted <= 1
     /\ \A i, j \in InitializeIds :
          (initCalls[i].pc = "returned" /\ initCalls[j].pc = "returned")
            => initCalls[i].returned = initCalls[j].returned

====
